---- MODULE Spec2Model ----
(***************************************************************************)
(* A model of the pieces of healthlink-ai that carry logic:                *)
(*   - the AI Brain provider dispatcher (server/services/aiBrain.ts):      *)
(*     the provider registry, selectProvider and process;                  *)
(*   - the in-memory store (server/storage.ts): createClinic,              *)
(*     getClinicsByLocation with its haversine calculateDistance,          *)
(*     searchClinics, and the chat sessions and symptom analyses;          *)
(*   - the HTTP handlers (server/routes.ts and server/routes/*.ts) with    *)
(*     the services they await (aiService.ts, mapsService.ts), each        *)
(*     handler split at its await.                                         *)
(* Spec is the dispatcher and RegistrySpec its registry; BootSpec is the   *)
(* dispatcher as the server runs it, with the providers' analyze, and      *)
(* BootFairSpec adds the fairness of the event loop; StoreSpec and         *)
(* SearchSpec are the clinic store; ClinicRouteSpec, BrainRouteSpec,       *)
(* ServiceRouteSpec, RouteSpec and ChatSpec are the handlers.              *)
(***************************************************************************)
EXTENDS Integers, Sequences, FiniteSets, TLC

VARIABLES
    providers,   \* AIBrain.providers: the Map, as the sequence of its entries in insertion order
    initPc,      \* where the constructor's un-awaited initialize() stands
    imports,     \* the state of each dynamic import() started by registerProviders
    regCount,    \* the number of registerProvider calls made from outside the class
    call,        \* the process() call in flight, or the last one finished
    clinics,     \* MemStorage.clinics: the Map, as the sequence of its values in insertion order
    nextId,      \* the number of clinic ids randomUUID has handed out
    query,       \* the last getClinicsByLocation call: its arguments and its result
    search,      \* the last searchClinics call: its arguments and its result
    handlers,    \* the route handlers in flight, one per request slot
    chatSessions,    \* MemStorage.chatSessions: the Map, as the sequence of its values in insertion order
    symptomAnalyses  \* MemStorage.symptomAnalyses: the Map, likewise

vars == <<providers, initPc, imports, regCount, call, clinics, nextId, query,
         search, handlers, chatSessions, symptomAnalyses>>

brainVars == <<providers, initPc, imports, regCount, call>>

storeVars == <<clinics, nextId, query, search>>

routeVars == <<handlers, chatSessions, symptomAnalyses>>

\* ------------------------------------------------------------------ bounds

\* The number of registerProvider calls made from outside registerProviders.
MaxRegister == 1

\* ------------------------------------------------------- values of the code

\* JavaScript's null (where an object is expected) and undefined (where a
\* string is expected, and where an object is).
Null == [null |-> TRUE]

Undefined == "undefined"

UndefinedObject == [undefined |-> TRUE]

\* The elements of an array.
Elements(s) == {s[i] : i \in 1..Len(s)}

\* An array sorted with Array.prototype.sort(cmp), which is stable: an
\* insertion sort that puts each element after every element cmp does not
\* order after it. cmp[a, b] is the comparator's number for a and b.
SortInsert(t, x, cmp) ==
    LET later == {i \in 1..Len(t) : cmp[t[i], x] > 0}
        p == IF later = {} THEN Len(t) + 1
             ELSE CHOOSE i \in later : \A j \in later : i <= j
    IN  SubSeq(t, 1, p - 1) \o <<x>> \o SubSeq(t, p, Len(t))

ArraySort(s, cmp) ==
    LET srt[n \in 0..Len(s)] ==
            IF n = 0 THEN <<>> ELSE SortInsert(srt[n - 1], s[n], cmp)
    IN  srt[Len(s)]

\* ------------------------------------------------------------------ numbers

\* A JavaScript number is NaN or a decimal floating-point number m * 10^e of
\* seven significant digits (MantissaMin <= |m| < MantissaMax, or m = 0):
\* every operation computes on the mantissas and rounds its result toward
\* zero to seven digits, as a double's does to fifty-three bits.
NaN == [nan |-> TRUE]

Zero == [m |-> 0, e |-> 0]

MantissaMin == 10^6

MantissaMax == 10^7

Abs(n) == IF n < 0 THEN -n ELSE n

Sgn(n) == IF n < 0 THEN -1 ELSE IF n > 0 THEN 1 ELSE 0

TruncDiv(n, d) == Sgn(n) * (Abs(n) \div d)

\* The number m * 10^e, rounded.
RECURSIVE Num(_, _)
Num(m, e) ==
    IF m = 0 THEN Zero
    ELSE IF Abs(m) >= MantissaMax THEN Num(TruncDiv(m, 10), e + 1)
    ELSE IF Abs(m) < MantissaMin THEN Num(m * 10, e - 1)
    ELSE [m |-> m, e |-> e]

One == Num(1, 0)

Two == Num(2, 0)

\* -a
Neg(a) == IF a = NaN THEN NaN ELSE [m |-> -a.m, e |-> a.e]

\* a + b: exact when the exponents are within two, with two guard digits otherwise.
Add(a, b) ==
    IF a = NaN \/ b = NaN THEN NaN
    ELSE IF a.m = 0 THEN b
    ELSE IF b.m = 0 THEN a
    ELSE LET hi == IF a.e >= b.e THEN a ELSE b
             lo == IF a.e >= b.e THEN b ELSE a
             d == hi.e - lo.e
         IN  IF d >= 10 THEN hi
             ELSE IF d <= 2 THEN Num(hi.m * 10^d + lo.m, lo.e)
             ELSE Num(hi.m * 100 + TruncDiv(lo.m, 10^(d - 2)), hi.e - 2)

\* a - b
Sub(a, b) == Add(a, Neg(b))

\* a * b: the fourteen-digit product of the mantissas, cut to its first digits.
Mul(a, b) ==
    IF a = NaN \/ b = NaN THEN NaN
    ELSE IF a.m = 0 \/ b.m = 0 THEN Zero
    ELSE LET p == Abs(a.m)
             q == Abs(b.m)
             p1 == p \div 10000
             p0 == p % 10000
             q1 == q \div 10000
             q0 == q % 10000
             mid == p1 * q0 + p0 * q1
             low == p0 * q0
             top == p1 * q1 * 100 + (mid + low \div 10000) \div 100
         IN  Num(Sgn(a.m) * Sgn(b.m) * top, a.e + b.e + 6)

RECURSIVE LongDiv(_, _, _, _)
LongDiv(r, d, n, acc) ==
    IF n = 0 THEN acc
    ELSE LongDiv((r % d) * 10, d, n - 1, acc * 10 + r \div d)

\* a / b: eight digits of the quotient of the mantissas (0 / 0 is NaN; no
\* other division by zero occurs in the code modelled).
Div(a, b) ==
    IF a = NaN \/ b = NaN THEN NaN
    ELSE IF b.m = 0 THEN NaN
    ELSE IF a.m = 0 THEN Zero
    ELSE Num(Sgn(a.m) * Sgn(b.m) * LongDiv(Abs(a.m), Abs(b.m), 8, 0), a.e - b.e - 7)

\* a <= b, false when either is NaN.
Leq(a, b) == a # NaN /\ b # NaN /\ Sub(a, b).m <= 0

RECURSIVE IntSqrt(_, _, _)
IntSqrt(n, lo, hi) ==
    IF hi - lo <= 1 THEN lo
    ELSE LET mid == (lo + hi) \div 2
         IN  IF mid * mid <= n THEN IntSqrt(n, mid, hi) ELSE IntSqrt(n, lo, mid)

\* Math.sqrt: the integer root of the mantissa, then two steps of Newton.
MathSqrt(a) ==
    IF a = NaN THEN NaN
    ELSE IF a.m < 0 THEN NaN
    ELSE IF a.m = 0 THEN Zero
    ELSE LET odd == a.e % 2 # 0
             m2 == IF odd THEN a.m * 10 ELSE a.m
             e2 == IF odd THEN a.e - 1 ELSE a.e
             s0 == Num(IntSqrt(m2, 0, 10000), e2 \div 2)
             s1 == Div(Add(s0, Div(a, s0)), Two)
             s2 == Div(Add(s1, Div(a, s1)), Two)
         IN  s2

\* A term too small to change the sum it would be added to.
Negligible(term, sum) == term.m = 0 \/ (sum.m # 0 /\ term.e < sum.e - 9)

\* sum + term - term * x2 / ((k+1)(k+2)) + ..., at most n terms.
RECURSIVE PowerSeries(_, _, _, _, _)
PowerSeries(sum, term, x2, k, n) ==
    IF n = 0 \/ Negligible(term, sum) THEN sum
    ELSE PowerSeries(Add(sum, term),
                     Neg(Div(Mul(term, x2), Num((k + 1) * (k + 2), 0))),
                     x2, k + 2, n - 1)

\* Math.sin and Math.cos, by their series (arguments within -PI..PI).
MathSin(a) == IF a = NaN THEN NaN ELSE PowerSeries(Zero, a, Mul(a, a), 1, 12)

MathCos(a) == IF a = NaN THEN NaN ELSE PowerSeries(Zero, One, Mul(a, a), 0, 12)

\* sum + pow / k - pow * t2 / (k+2) + ..., at most n terms.
RECURSIVE AtanSeries(_, _, _, _, _)
AtanSeries(sum, pow, t2, k, n) ==
    IF n = 0 \/ Negligible(pow, sum) THEN sum
    ELSE AtanSeries(Add(sum, Div(pow, Num(k, 0))), Neg(Mul(pow, t2)), t2, k + 2, n - 1)

\* Math.PI
MathPI == Num(3141593, -6)

\* The arctangent of t in 0..1: twice that of t / (1 + sqrt(1 + t^2)).
AtanUnit(t) ==
    LET r == Div(t, Add(One, MathSqrt(Add(One, Mul(t, t)))))
    IN  Mul(Two, AtanSeries(Zero, r, Mul(r, r), 1, 14))

\* Math.atan2(y, x) for y >= 0 and x >= 0, not both 0: the two square roots
\* calculateDistance passes.
MathAtan2(y, x) ==
    IF y = NaN \/ x = NaN THEN NaN
    ELSE IF y.m = 0 THEN Zero
    ELSE IF Leq(y, x) THEN AtanUnit(Div(y, x))
    ELSE Sub(Div(MathPI, Two), AtanUnit(Div(x, y)))

\* One character of a text is a digit, and its value.
DigitChars == <<"0", "1", "2", "3", "4", "5", "6", "7", "8", "9">>

IsDigit(c) == \E d \in 1..10 : DigitChars[d] = c

DigitValue(c) == (CHOOSE d \in 1..10 : DigitChars[d] = c) - 1

\* The digits of text t from position i on: the value of acc followed by
\* them, and the position after them.
RECURSIVE ScanDigits(_, _, _)
ScanDigits(t, i, acc) ==
    IF i <= Len(t) /\ IsDigit(t[i])
    THEN ScanDigits(t, i + 1, acc * 10 + DigitValue(t[i]))
    ELSE [value |-> acc, next |-> i]

\* parseFloat on a text (a sequence of characters): the number of the longest
\* prefix that is a sign, digits, and a point with digits; NaN when that
\* prefix holds no digit. Leading blanks, exponents and Infinity are not
\* modelled.
parseFloat(t) ==
    LET signed == Len(t) >= 1 /\ t[1] \in {"-", "+"}
        sign == IF Len(t) >= 1 /\ t[1] = "-" THEN -1 ELSE 1
        start == IF signed THEN 2 ELSE 1
        int == ScanDigits(t, start, 0)
        point == int.next <= Len(t) /\ t[int.next] = "."
        frac == IF point THEN ScanDigits(t, int.next + 1, int.value)
                ELSE [value |-> int.value, next |-> int.next]
        fracDigits == IF point THEN frac.next - (int.next + 1) ELSE 0
        digits == (int.next - start) + fracDigits
    IN  IF digits = 0 THEN NaN ELSE Num(sign * frac.value, -fracDigits)

\* ---------------------------------------------------------------- providers

\* The three provider classes, by the fields selectProvider and process read.
OpenAIProvider == [name |-> "openai", isActive |-> TRUE, priority |-> 10]

GeminiProvider == [name |-> "gemini", isActive |-> TRUE, priority |-> 9]

PerplexityProvider == [name |-> "perplexity", isActive |-> TRUE, priority |-> 8]

\* The modules registerProviders imports, with the key and the class of each.
Modules == {"openai", "gemini", "perplexity"}

ModuleProvider(m) ==
    CASE m = "openai" -> OpenAIProvider
      [] m = "gemini" -> GeminiProvider
      [] m = "perplexity" -> PerplexityProvider

\* Other implementations of IAIProvider a caller may hand to registerProvider,
\* and the keys it may register them under (the key is not tied to the name).
CustomProviders ==
    [name : {"a", "openai"}, isActive : BOOLEAN, priority : {10, 11}]

CustomKeys == {"a", "openai"}

\* The registrations made while process calls are followed in full: under
\* its own key, a provider that outranks the three classes, active or not.
DispatchRegistrations ==
    {<<"a", [name |-> "a", isActive |-> act, priority |-> 11]>> : act \in BOOLEAN}

\* Map.set: an existing key keeps its place and takes the new value, a new key
\* goes last.
MapSet(m, k, v) ==
    IF \E i \in 1..Len(m) : m[i].key = k
    THEN [i \in 1..Len(m) |-> IF m[i].key = k THEN [key |-> k, provider |-> v] ELSE m[i]]
    ELSE Append(m, [key |-> k, provider |-> v])

\* Array.from(map.values())
MapValues(m) == [i \in 1..Len(m) |-> m[i].provider]

registerProvider(m, key, provider) == MapSet(m, key, provider)

\* The comparator of selectProvider's sort, on the elements of an array.
byPriority(s) == [a \in Elements(s), b \in Elements(s) |-> b.priority - a.priority]

\* selectProvider without its filter on isActive.
selectProviderNoFilter(m) ==
    LET availableProviders == ArraySort(MapValues(m), byPriority(MapValues(m)))
    IN  IF Len(availableProviders) > 0 THEN availableProviders[1] ELSE Null

\* selectProvider without its sort: the first active provider registered.
selectProviderUnsorted(m) ==
    LET availableProviders == SelectSeq(MapValues(m), LAMBDA p : p.isActive)
    IN  IF Len(availableProviders) > 0 THEN availableProviders[1] ELSE Null

selectProvider(m) ==
    LET active == SelectSeq(MapValues(m), LAMBDA p : p.isActive)
        availableProviders == ArraySort(active, byPriority(active))
    IN  IF Len(availableProviders) > 0 THEN availableProviders[1] ELSE Null

\* ------------------------------------------------------------------ process

\* The request kinds of AIBrainRequest.requestType: the five the switch of
\* process handles, and "nutrition" for the three it leaves to its default.
RequestTypes == {"chat", "analysis", "prediction", "education", "emotion", "nutrition"}

Specializations == {"symptoms", "nutrition"}

\* request.input: an object with the fields process reads, or no object.
InputObject ==
    [messages |-> "messages", options |-> "options", query |-> "query",
     data |-> "data", type |-> "type"]

Inputs == {InputObject, UndefinedObject}

\* request.fallback: absent or true.
Fallbacks == {"undefined", "true"}

Requests ==
    [requestType : RequestTypes, specialization : Specializations,
     input : Inputs, fallback : Fallbacks]

\* The request analyzeSymptoms builds.
SymptomsRequest ==
    [requestType |-> "analysis", specialization |-> "symptoms",
     input |-> InputObject, fallback |-> "undefined"]

\* What a provider method's promise can do: fulfil with a value, or reject
\* with an Error or with a value that is not an Error.
Error(msg) == [isError |-> TRUE, message |-> msg]

Rejections == {Error("e1"), Error("e2"), [isError |-> FALSE, message |-> "e1"]}

Results == {"r1", "r2"}

\* Reading a property of request.input throws a TypeError when there is no
\* input object.
PropThrows(input) == input = UndefinedObject

TypeError(f) == Error("Cannot read properties of undefined (reading '" \o f \o "')")

\* A switch whose prediction case calls analyze, as the case above it does.
DispatchPredictionAnalyzes(request) ==
    LET in == request.input
        Call(method, args) == [throws |-> FALSE, method |-> method, args |-> args]
        Throw(e) == [throws |-> TRUE, error |-> e]
    IN  CASE request.requestType = "chat" ->
                IF PropThrows(in) THEN Throw(TypeError("messages"))
                ELSE Call("chat", <<in.messages, in.options>>)
          [] request.requestType \in {"analysis", "prediction"} ->
                Call("analyze", <<in, request.specialization>>)
          [] request.requestType = "education" ->
                IF PropThrows(in) THEN Throw(TypeError("query"))
                ELSE Call("educate", <<in.query>>)
          [] request.requestType = "emotion" ->
                IF PropThrows(in) THEN Throw(TypeError("data"))
                ELSE Call("processEmotion", <<in.data, in.type>>)
          [] OTHER ->
                Throw(Error("Unsupported request type: " \o request.requestType))

\* A switch that, for a request whose fallback is set, answers an unsupported
\* request type through the provider's chat method rather than throwing.
DispatchFallsBack(request) ==
    LET in == request.input
        Call(method, args) == [throws |-> FALSE, method |-> method, args |-> args]
        Throw(e) == [throws |-> TRUE, error |-> e]
    IN  CASE request.requestType = "chat" ->
                IF PropThrows(in) THEN Throw(TypeError("messages"))
                ELSE Call("chat", <<in.messages, in.options>>)
          [] request.requestType = "analysis" ->
                Call("analyze", <<in, request.specialization>>)
          [] request.requestType = "prediction" ->
                Call("predict", <<in>>)
          [] request.requestType = "education" ->
                IF PropThrows(in) THEN Throw(TypeError("query"))
                ELSE Call("educate", <<in.query>>)
          [] request.requestType = "emotion" ->
                IF PropThrows(in) THEN Throw(TypeError("data"))
                ELSE Call("processEmotion", <<in.data, in.type>>)
          [] OTHER ->
                IF request.fallback = "true" THEN Call("chat", <<in, in>>)
                ELSE Throw(Error("Unsupported request type: " \o request.requestType))

\* The switch of process: the method it calls with its arguments, or the
\* error thrown before any call.
Dispatch(request) ==
    LET in == request.input
        Call(method, args) == [throws |-> FALSE, method |-> method, args |-> args]
        Throw(e) == [throws |-> TRUE, error |-> e]
    IN  CASE request.requestType = "chat" ->
                IF PropThrows(in) THEN Throw(TypeError("messages"))
                ELSE Call("chat", <<in.messages, in.options>>)
          [] request.requestType = "analysis" ->
                Call("analyze", <<in, request.specialization>>)
          [] request.requestType = "prediction" ->
                Call("predict", <<in>>)
          [] request.requestType = "education" ->
                IF PropThrows(in) THEN Throw(TypeError("query"))
                ELSE Call("educate", <<in.query>>)
          [] request.requestType = "emotion" ->
                IF PropThrows(in) THEN Throw(TypeError("data"))
                ELSE Call("processEmotion", <<in.data, in.type>>)
          [] OTHER ->
                Throw(Error("Unsupported request type: " \o request.requestType))

\* A promise fulfilled with a value, and one rejected with a reason.
Fulfilled(value) == [state |-> "fulfilled", value |-> value]

Rejected(e) == [state |-> "rejected", reason |-> e]

\* A return that echoes no provider.
ProcessReturnUnknown(provider, result) ==
    Fulfilled([success |-> TRUE, data |-> result, error |-> Undefined,
               provider |-> "unknown", model |-> "default"])

\* The return of the try block.
ProcessReturn(provider, result) ==
    Fulfilled([success |-> TRUE, data |-> result, error |-> Undefined,
               provider |-> provider.name, model |-> "default"])

\* A catch block that throws what it caught.
ProcessCatchRethrows(error) == Rejected(error)

\* The catch block.
ProcessCatch(error) ==
    Fulfilled([success |-> FALSE, data |-> Undefined,
               error |-> IF error.isError THEN error.message ELSE "Unknown error",
               provider |-> "unknown", model |-> "unknown"])

NoProviderError == Error("No suitable AI provider available")

\* A promise not settled yet.
Pending == [state |-> "pending"]

\* The test `!provider` of process.
NoProviderNever(provider) == FALSE

NoProvider(provider) == provider = Null

\* No process call yet. A call holds its request, the provider selected for
\* it, the provider methods invoked for it, the promise of the awaited method
\* (settled) and the promise process returned (promise).
Idle ==
    [pc |-> "idle", request |-> UndefinedObject, provider |-> Null,
     invoked |-> <<>>, settled |-> Pending, promise |-> Pending]

\* ------------------------------------------------------------ clinic store

\* The number of createClinic calls.
MaxClinics == 1

\* The coordinate texts of the sample clinics, character by character.
Lat407128 == <<"4", "0", ".", "7", "1", "2", "8">>

Lon740060 == <<"-", "7", "4", ".", "0", "0", "6", "0">>

Lat407589 == <<"4", "0", ".", "7", "5", "8", "9">>

Lon739851 == <<"-", "7", "3", ".", "9", "8", "5", "1">>

Lat407505 == <<"4", "0", ".", "7", "5", "0", "5">>

Lon739934 == <<"-", "7", "3", ".", "9", "9", "3", "4">>

\* The names and addresses of the sample clinics, character by character.
CityMedicalCenter ==
    <<"C", "i", "t", "y", " ", "M", "e", "d", "i", "c", "a", "l", " ", "C",
      "e", "n", "t", "e", "r">>

CityMedicalCenterAddress ==
    <<"1", "2", "3", " ", "M", "a", "i", "n", " ", "S", "t", "r", "e", "e",
      "t", ",", " ", "D", "o", "w", "n", "t", "o", "w", "n">>

QuickCareUrgentCare ==
    <<"Q", "u", "i", "c", "k", "C", "a", "r", "e", " ", "U", "r", "g", "e",
      "n", "t", " ", "C", "a", "r", "e">>

QuickCareUrgentCareAddress ==
    <<"4", "5", "6", " ", "O", "a", "k", " ", "A", "v", "e", "n", "u", "e",
      ",", " ", "M", "i", "d", "t", "o", "w", "n">>

FamilyHealthPartners ==
    <<"F", "a", "m", "i", "l", "y", " ", "H", "e", "a", "l", "t", "h", " ",
      "P", "a", "r", "t", "n", "e", "r", "s">>

FamilyHealthPartnersAddress ==
    <<"7", "8", "9", " ", "P", "i", "n", "e", " ", "S", "t", "r", "e", "e",
      "t", ",", " ", "W", "e", "s", "t", "s", "i", "d", "e">>

HarborClinic ==
    <<"H", "a", "r", "b", "o", "r", " ", "C", "l", "i", "n", "i", "c">>

HarborClinicAddress ==
    <<"1", " ", "D", "o", "c", "k", " ", "R", "o", "a", "d">>

\* initializeSampleClinics: the three clinics the constructor stores, in
\* order, with the ids randomUUID gave them (rating, hours, phone and website
\* are carried along and read by nothing modelled).
SampleClinics ==
    << [id |-> 1, name |-> CityMedicalCenter,
        address |-> CityMedicalCenterAddress,
        latitude |-> Lat407128, longitude |-> Lon740060, type |-> "general"],
       [id |-> 2, name |-> QuickCareUrgentCare,
        address |-> QuickCareUrgentCareAddress,
        latitude |-> Lat407589, longitude |-> Lon739851, type |-> "urgent"],
       [id |-> 3, name |-> FamilyHealthPartners,
        address |-> FamilyHealthPartnersAddress,
        latitude |-> Lat407505, longitude |-> Lon739934, type |-> "general"] >>

\* The clinics handed to createClinic: at the place of a sample clinic, at a
\* place of their own, and with a latitude or longitude text that holds no
\* number.
InsertLatitudes == {Lat407128, <<"4", "0", ".", "7", "3">>, <<"n", "/", "a">>}

InsertLongitudes == {Lon740060, <<"-", "7", "4", ".", "0", "2", "k", "m">>, <<>>}

InsertClinics ==
    [name : {HarborClinic}, address : {HarborClinicAddress},
     latitude : InsertLatitudes, longitude : InsertLongitudes, type : {"urgent"}]

\* The arguments of getClinicsByLocation: the query points (the places of the
\* first and second sample clinic, and a third place) and the radii in miles
\* (a radius that is no number among them).
QueryPoints ==
    {<<parseFloat(Lat407128), parseFloat(Lon740060)>>,
     <<parseFloat(Lat407589), parseFloat(Lon739851)>>,
     <<Num(4073, -2), Num(-7402, -2)>>}

Radii == {Zero, One, Num(3, 0), Num(5, 0), NaN}

\* The haversine formula with the latitude of the first point in both cosines.
HaversineOneLatitude(lat1, lon1, lat2, lon2) ==
    LET R == Num(3959, 0)
        dLat == Div(Mul(Sub(lat2, lat1), MathPI), Num(180, 0))
        dLon == Div(Mul(Sub(lon2, lon1), MathPI), Num(180, 0))
        a == Add(Mul(MathSin(Div(dLat, Two)), MathSin(Div(dLat, Two))),
                 Mul(Mul(Mul(MathCos(Div(Mul(lat1, MathPI), Num(180, 0))),
                             MathCos(Div(Mul(lat1, MathPI), Num(180, 0)))),
                         MathSin(Div(dLon, Two))),
                     MathSin(Div(dLon, Two))))
        c == Mul(Two, MathAtan2(MathSqrt(a), MathSqrt(Sub(One, a))))
    IN  Mul(R, c)

\* The haversine distance in kilometres: the Earth's radius as 6371.
HaversineKilometres(lat1, lon1, lat2, lon2) ==
    LET R == Num(6371, 0)
        dLat == Div(Mul(Sub(lat2, lat1), MathPI), Num(180, 0))
        dLon == Div(Mul(Sub(lon2, lon1), MathPI), Num(180, 0))
        a == Add(Mul(MathSin(Div(dLat, Two)), MathSin(Div(dLat, Two))),
                 Mul(Mul(Mul(MathCos(Div(Mul(lat1, MathPI), Num(180, 0))),
                             MathCos(Div(Mul(lat2, MathPI), Num(180, 0)))),
                         MathSin(Div(dLon, Two))),
                     MathSin(Div(dLon, Two))))
        c == Mul(Two, MathAtan2(MathSqrt(a), MathSqrt(Sub(One, a))))
    IN  Mul(R, c)

\* The body of calculateDistance: the haversine distance in miles.
Haversine(lat1, lon1, lat2, lon2) ==
    LET R == Num(3959, 0)
        dLat == Div(Mul(Sub(lat2, lat1), MathPI), Num(180, 0))
        dLon == Div(Mul(Sub(lon2, lon1), MathPI), Num(180, 0))
        a == Add(Mul(MathSin(Div(dLat, Two)), MathSin(Div(dLat, Two))),
                 Mul(Mul(Mul(MathCos(Div(Mul(lat1, MathPI), Num(180, 0))),
                             MathCos(Div(Mul(lat2, MathPI), Num(180, 0)))),
                         MathSin(Div(dLon, Two))),
                     MathSin(Div(dLon, Two))))
        c == Mul(Two, MathAtan2(MathSqrt(a), MathSqrt(Sub(One, a))))
    IN  Mul(R, c)

\* The latitudes and longitudes the model's clinics and queries hold.
Latitudes ==
    {parseFloat(SampleClinics[i].latitude) : i \in 1..Len(SampleClinics)}
        \cup {parseFloat(t) : t \in InsertLatitudes} \cup {p[1] : p \in QueryPoints}
        \cup {Zero}

Longitudes ==
    {parseFloat(SampleClinics[i].longitude) : i \in 1..Len(SampleClinics)}
        \cup {parseFloat(t) : t \in InsertLongitudes} \cup {p[2] : p \in QueryPoints}

\* Haversine on those, computed once.
HaversineTable ==
    [args \in Latitudes \X Longitudes \X Latitudes \X Longitudes |->
        Haversine(args[1], args[2], args[3], args[4])]

\* calculateDistance(lat1, lon1, lat2, lon2): Haversine, read from the table
\* (every latitude and longitude of the model is in Latitudes and Longitudes).
calculateDistance(lat1, lon1, lat2, lon2) ==
    HaversineTable[<<lat1, lon1, lat2, lon2>>]

\* The map of getClinicsByLocation: each clinic with its distance.
WithDistance(cl, latitude, longitude) ==
    [i \in 1..Len(cl) |->
        [clinic |-> cl[i],
         distance |-> calculateDistance(latitude, longitude,
                                        parseFloat(cl[i].latitude),
                                        parseFloat(cl[i].longitude))]]

\* A filter that keeps every result.
WithinRadiusAll(results, radius) == results

\* A filter with < for <=.
WithinRadiusStrict(results, radius) ==
    SelectSeq(results, LAMBDA r : Leq(r.distance, radius) /\ r.distance # radius)

\* A filter that keeps a result whose distance is no number.
WithinRadiusOrNaN(results, radius) ==
    SelectSeq(results, LAMBDA r : r.distance = NaN \/ Leq(r.distance, radius))

\* The filter of getClinicsByLocation.
WithinRadius(results, radius) ==
    SelectSeq(results, LAMBDA r : Leq(r.distance, radius))

\* What sort reads from a comparator's number: its sign, and 0 for NaN.
Compared(d) == IF d = NaN THEN 0 ELSE Sgn(d.m)

\* A comparator that orders by descending distance.
byDistanceDescending(s) ==
    [a \in Elements(s), b \in Elements(s) |-> Compared(Sub(b.distance, a.distance))]

\* The comparator of getClinicsByLocation's sort, on the elements of an
\* array: a.distance - b.distance.
byDistance(s) ==
    [a \in Elements(s), b \in Elements(s) |-> Compared(Sub(a.distance, b.distance))]

getClinicsByLocation(cl, latitude, longitude, radius) ==
    LET within == WithinRadius(WithDistance(cl, latitude, longitude), radius)
    IN  ArraySort(within, byDistance(within))

\* String.prototype.toLowerCase on the letters A to Z; every other character
\* of the model's texts is its own lower case.
UpperCase ==
    <<"A", "B", "C", "D", "E", "F", "G", "H", "I", "J", "K", "L", "M",
      "N", "O", "P", "Q", "R", "S", "T", "U", "V", "W", "X", "Y", "Z">>

LowerCase ==
    <<"a", "b", "c", "d", "e", "f", "g", "h", "i", "j", "k", "l", "m",
      "n", "o", "p", "q", "r", "s", "t", "u", "v", "w", "x", "y", "z">>

toLowerCase(t) ==
    [i \in 1..Len(t) |->
        IF \E k \in 1..Len(UpperCase) : UpperCase[k] = t[i]
        THEN LowerCase[CHOOSE k \in 1..Len(UpperCase) : UpperCase[k] = t[i]]
        ELSE t[i]]

\* String.prototype.includes: s occurs in t at some position.
includes(t, s) ==
    \E i \in 0..(Len(t) - Len(s)) : SubSeq(t, i + 1, i + Len(s)) = s

\* !type for `type?: string`: undefined and the empty string are falsy.
NotType(type) == type = Undefined \/ type = ""

\* A searchClinics that lowers the case of the clinic's texts only.
searchClinicsQueryAsIs(cl, searchQuery, type) ==
    SelectSeq(cl, LAMBDA clinic :
        LET matchesQuery == \/ includes(toLowerCase(clinic.name), searchQuery)
                            \/ includes(toLowerCase(clinic.address), searchQuery)
            matchesType == NotType(type) \/ clinic.type = type
        IN  matchesQuery /\ matchesType)

\* searchClinics(query, type) on the array read from the Map.
searchClinics(cl, searchQuery, type) ==
    SelectSeq(cl, LAMBDA clinic :
        LET matchesQuery == \/ includes(toLowerCase(clinic.name), toLowerCase(searchQuery))
                            \/ includes(toLowerCase(clinic.address), toLowerCase(searchQuery))
            matchesType == NotType(type) \/ clinic.type = type
        IN  matchesQuery /\ matchesType)

\* The clinics handed to createClinic before a search: names that hold a
\* query in another case, and types that differ in case only.
StreetCare == <<"S", "t", "r", "e", "e", "t", " ", "C", "A", "R", "E">>

SearchInsertClinics ==
    [name : {HarborClinic, StreetCare}, address : {HarborClinicAddress},
     latitude : {Lat407128}, longitude : {Lon740060}, type : {"urgent", "General"}]

\* The arguments of searchClinics: a query in upper case, one in lower case
\* found in addresses, the empty query, one found in a created clinic only,
\* one with a comma and a space, and one found nowhere; the type absent,
\* empty, and two stored types.
SearchQueries ==
    {<<"C", "A", "R", "E">>, <<"s", "t", "r", "e", "e", "t">>, <<>>,
     <<"c", "l", "i", "n", "i", "c">>, <<"t", ",", " ", "W", "e", "s", "t">>,
     <<"z", "z">>}

SearchTypes == {Undefined, "", "general", "urgent"}

\* ------------------------------------------------------------ clinic routes

\* An optional field of a request body: absent, or given with a value.
Absent == <<>>

Given(v) == <<v>>

\* A JSON value that is no number, where a number is expected.
NotNumber == [string |-> "40.7"]

\* z.number() accepts the value.
IsNumber(v) == DOMAIN v = {"m", "e"}

\* !x for an optional number, an optional text and an optional type: absent,
\* 0 and the empty string are falsy.
FalsyNumber(o) == o = Absent \/ o[1] = Zero

FalsyText(o) == o = Absent \/ o[1] = <<>>

FalsyType(o) == o = Absent \/ o[1] = ""

\* The value of an optional field, with its default when absent.
OrDefault(o, default) == IF o = Absent THEN default ELSE o[1]

\* The digits of n, k of them.
Digits(n, k) == [i \in 1..k |-> (n \div 10^(k - i)) % 10]

\* Number.prototype.toString: sign, integer digits, and a point with the
\* fraction digits up to the last that is not 0. The exponent notation of
\* numbers from 1e21 and below 1e-6 is not modelled.
NumberToString(a) ==
    IF a = NaN THEN <<"N", "a", "N">>
    ELSE IF a.m = 0 THEN <<"0">>
    ELSE
      LET d == Digits(Abs(a.m), 7)
          p == 7 + a.e
          last == CHOOSE i \in 1..7 : d[i] # 0 /\ \A j \in (i + 1)..7 : d[j] = 0
          char(i) == DigitChars[d[i] + 1]
          sign == IF a.m < 0 THEN <<"-">> ELSE <<>>
      IN  sign \o
          (IF p >= 7 THEN [i \in 1..p |-> IF i <= 7 THEN char(i) ELSE "0"]
           ELSE IF p >= 1
           THEN [i \in 1..p |-> char(i)] \o
                (IF last > p THEN <<".">> \o [i \in 1..(last - p) |-> char(p + i)] ELSE <<>>)
           ELSE <<"0", ".">> \o [i \in 1..(-p) |-> "0"] \o [i \in 1..last |-> char(i)])

\* The responses of a handler: res.json(body), and res.status(n).json({error}).
Json(body) == [status |-> 200, error |-> Undefined, body |-> body]

Failure(status, error) == [status |-> status, error |-> error, body |-> <<>>]

\* res.status(400).json({ error, details: error.errors })
Invalid(error) == [status |-> 400, error |-> error, body |-> <<"details">>]

\* schema.parse(req.body) of POST /api/clinics/search throws a ZodError.
SearchSchemaThrows(body) ==
    \/ body.latitude # Absent /\ ~IsNumber(body.latitude[1])
    \/ body.longitude # Absent /\ ~IsNumber(body.longitude[1])
    \/ body.radius # Absent /\ ~IsNumber(body.radius[1])

\* clinics.map(clinic => ({ clinic, distance: 0 }))
AtDistanceZero(cl) == [i \in 1..Len(cl) |-> [clinic |-> cl[i], distance |-> Zero]]

\* `if (type) results = results.filter(result => result.clinic.type === type)`
FilterByType(results, type) ==
    IF FalsyType(type) THEN results
    ELSE SelectSeq(results, LAMBDA result : result.clinic.type = type[1])

\* The handler of POST /api/clinics/search goes to the geocoder.
SearchGeocodes(body) ==
    ~FalsyText(body.location) /\ (FalsyNumber(body.latitude) \/ FalsyNumber(body.longitude))

\* `else if (latitude && longitude)`: the handler of POST /api/clinics/search
\* goes to getClinicsByLocation with the coordinates of the body.
SearchLocates(body) ==
    ~FalsyNumber(body.latitude) /\ ~FalsyNumber(body.longitude)

\* The results of POST /api/clinics/search from its last two branches, the
\* text search and all clinics, before the filter by type.
SearchResults(cl, body) ==
    IF ~FalsyText(body.query)
    THEN AtDistanceZero(searchClinics(cl, body.query[1], OrDefault(body.type, Undefined)))
    ELSE AtDistanceZero(cl)

\* schema.parse(req.body) of POST /api/clinics/nearby throws a ZodError.
NearbySchemaThrows(body) ==
    \/ body.latitude = Absent \/ ~IsNumber(body.latitude[1])
    \/ body.longitude = Absent \/ ~IsNumber(body.longitude[1])
    \/ body.radius # Absent /\ ~IsNumber(body.radius[1])

\* radius / 1609.34
NearbyRadius(radius) == Div(radius, Num(160934, -2))

\* mapGoogleTypeToClinicType(googleType)
mapGoogleTypeToClinicType(googleType) ==
    CASE googleType = "hospital" -> "hospital"
      [] googleType = "doctor" -> "general"
      [] googleType = "pharmacy" -> "pharmacy"
      [] googleType = "dentist" -> "specialist"
      [] googleType = "physiotherapist" -> "specialist"
      [] OTHER -> "general"

\* What the places search answers: the fetch rejects, or it fulfils with a
\* status and results; a result may lack its geometry.
EmpireState ==
    [place_id |-> 101, name |-> <<"E", "S", "B">>, vicinity |-> <<"3", "5", "0">>,
     geometry |-> Given([lat |-> Num(407484, -4), lng |-> Num(-739857, -4)])]

Bellevue ==
    [place_id |-> 102, name |-> <<"B", "e", "l">>, vicinity |-> <<"4", "6", "2">>,
     geometry |-> Given([lat |-> Num(40739, -3), lng |-> Num(-73975, -3)])]

NoGeometry ==
    [place_id |-> 103, name |-> <<"N", "o">>, vicinity |-> <<"1">>, geometry |-> Absent]

PlacesOutcomes ==
    {[fetch |-> "fulfilled", status |-> "OK", results |-> <<EmpireState, Bellevue>>],
     [fetch |-> "fulfilled", status |-> "OK", results |-> <<EmpireState, NoGeometry>>],
     [fetch |-> "fulfilled", status |-> "ZERO_RESULTS", results |-> <<>>],
     [fetch |-> "fulfilled", status |-> "REQUEST_DENIED", results |-> <<>>],
     [fetch |-> "rejected", status |-> "", results |-> <<>>]}

\* A searchNearbyHealthcare whose failures reject.
searchNearbyHealthcareThrows(outcome, type) ==
    IF outcome.fetch = "rejected" THEN [throws |-> TRUE, clinics |-> <<>>]
    ELSE IF outcome.status # "OK" THEN [throws |-> FALSE, clinics |-> <<>>]
    ELSE IF \E i \in 1..Len(outcome.results) : outcome.results[i].geometry = Absent
    THEN [throws |-> TRUE, clinics |-> <<>>]
    ELSE [throws |-> FALSE,
          clinics |->
            [i \in 1..Len(outcome.results) |->
                [id |-> outcome.results[i].place_id,
                 name |-> outcome.results[i].name,
                 address |-> outcome.results[i].vicinity,
                 latitude |-> NumberToString(outcome.results[i].geometry[1].lat),
                 longitude |-> NumberToString(outcome.results[i].geometry[1].lng),
                 type |-> mapGoogleTypeToClinicType(type)]]]

\* searchNearbyHealthcare(latitude, longitude, radius, type) on what the
\* places search answers: the mapped results when the status is OK, and []
\* for another status and for whatever its try block throws (a rejected
\* fetch, a result without geometry).
searchNearbyHealthcare(outcome, type) ==
    IF outcome.fetch = "rejected" THEN [throws |-> FALSE, clinics |-> <<>>]
    ELSE IF outcome.status # "OK" THEN [throws |-> FALSE, clinics |-> <<>>]
    ELSE IF \E i \in 1..Len(outcome.results) : outcome.results[i].geometry = Absent
    THEN [throws |-> FALSE, clinics |-> <<>>]
    ELSE [throws |-> FALSE,
          clinics |->
            [i \in 1..Len(outcome.results) |->
                [id |-> outcome.results[i].place_id,
                 name |-> outcome.results[i].name,
                 address |-> outcome.results[i].vicinity,
                 latitude |-> NumberToString(outcome.results[i].geometry[1].lat),
                 longitude |-> NumberToString(outcome.results[i].geometry[1].lng),
                 type |-> mapGoogleTypeToClinicType(type)]]]

\* The request bodies of the two routes.
Midtown == <<"M", "i", "d", "t", "o", "w", "n">>

SearchBodies ==
    [location : {Absent, Given(Midtown)},
     latitude : {Absent, Given(Zero), Given(parseFloat(Lat407128)), Given(NotNumber)},
     longitude : {Absent, Given(parseFloat(Lon740060))},
     radius : {Absent, Given(Num(3, 0))},
     type : {Absent, Given(""), Given("urgent")},
     query : {Absent, Given(<<"s", "t", "r", "e", "e", "t">>)}]

NearbyBodies ==
    [latitude : {Absent, Given(Zero), Given(parseFloat(Lat407128))},
     longitude : {Given(parseFloat(Lon740060)), Given(NotNumber)},
     radius : {Absent, Given(Num(5000, 0))},
     type : {Absent, Given("doctor"), Given("clinic")}]

\* What geocodeAddress returns: the place of the second sample clinic, or null.
GeocodeResults ==
    {Null, [latitude |-> parseFloat(Lat407589), longitude |-> parseFloat(Lon739851)]}

\* The clinics handed to createClinic while the routes run.
RouteInsertClinics ==
    [name : {HarborClinic}, address : {HarborClinicAddress},
     latitude : {Lat407128}, longitude : {Lon740060}, type : {"urgent"}]

\* ---------------------------------------------------------------- AI routes

\* A JSON string, and z.string() accepts the value.
Str(t) == [string |-> t]

IsString(v) == DOMAIN v = {"string"}

\* a || b on the fields of a provider's result, which are strings or undefined.
OrElse(a, b) == IF a = Undefined \/ a = "" THEN b ELSE a

\* The requests the helper methods of AIBrain hand to process.
analyzeNutritionAsSymptoms(foodData, goals) ==
    [requestType |-> "analysis", specialization |-> "symptoms",
     input |-> [foodData |-> foodData, goals |-> goals], fallback |-> "undefined"]

analyzeNutrition(foodData, goals) ==
    [requestType |-> "analysis", specialization |-> "nutrition",
     input |-> [foodData |-> foodData, goals |-> goals], fallback |-> "undefined"]

assessMentalHealth(responses, assessmentType) ==
    [requestType |-> "analysis", specialization |-> "mental_health",
     input |-> [responses |-> responses, assessmentType |-> assessmentType],
     fallback |-> "undefined"]

createFitnessPlan(userProfile, goals) ==
    [requestType |-> "analysis", specialization |-> "fitness",
     input |-> [userProfile |-> userProfile, goals |-> goals], fallback |-> "undefined"]

\* insertNutritionAnalysisSchema.parse throws a ZodError: foodItems is
\* required, and healthGoals and restrictions (x || null) are strings or null.
NutritionSchemaNeverThrows(body) == FALSE

NutritionSchemaThrows(body) ==
    \/ body.foodItems = Absent
    \/ body.healthGoals # Absent /\ body.healthGoals[1] # Str("") /\ ~IsString(body.healthGoals[1])

\* insertMentalHealthAssessmentSchema.parse throws a ZodError: assessmentType
\* is a required string and responses is required.
MentalHealthSchemaThrows(body) ==
    \/ body.assessmentType = Absent \/ ~IsString(body.assessmentType[1])
    \/ body.responses = Absent

\* The fitness level the fitness handler derives from data.userProfile.
FitnessLevel(body) ==
    LET profile == body.userProfile IN
    IF profile # Absent /\ profile[1].experience # Absent /\ profile[1].experience[1] # Str("")
    THEN profile[1].experience[1]
    ELSE IF profile # Absent /\ profile[1].activityLevel # Absent
                             /\ profile[1].activityLevel[1] # Str("")
    THEN IF profile[1].activityLevel[1] \in {Str("very_active"), Str("extremely_active")}
         THEN Str("advanced")
         ELSE IF profile[1].activityLevel[1] = Str("moderately_active")
         THEN Str("intermediate")
         ELSE Str("beginner")
    ELSE Str("beginner")

\* insertFitnessPlanSchema.parse throws a ZodError: fitnessLevel is a string
\* and goals is required.
FitnessSchemaThrows(body) ==
    \/ ~IsString(FitnessLevel(body))
    \/ body.goals = Absent

\* The request bodies of the three routes.
NutritionBodies ==
    [foodItems : {Absent, Given(Str("oats"))},
     healthGoals : {Absent, Given(Str("fit")), Given(Num(5, 0))}]

MentalHealthBodies ==
    [assessmentType : {Absent, Given(Str("anxiety")), Given(Num(5, 0))},
     responses : {Absent, Given(Str("answers"))}]

UserProfiles ==
    {[experience |-> Absent, activityLevel |-> Given(Str("very_active"))],
     [experience |-> Given(Num(3, 0)), activityLevel |-> Absent]}

FitnessBodies ==
    [userProfile : {Absent} \cup {Given(profile) : profile \in UserProfiles},
     goals : {Absent, Given(Str("endurance"))}]

\* What a provider's analyze fulfils with: an object with the fields the
\* handlers read, an object without them, or undefined.
PlanData ==
    [nutritionalBreakdown |-> "nb", recommendations |-> "rec", score |-> "7",
     riskLevel |-> "high", followUpDate |-> "2026-01-01",
     workoutPlan |-> Undefined, personalizedPlan |-> "pp",
     nutritionPlan |-> "np", nutritionSync |-> "ns",
     progressTracking |-> Undefined, progressMetrics |-> Undefined]

EmptyData ==
    [nutritionalBreakdown |-> Undefined, recommendations |-> Undefined, score |-> Undefined,
     riskLevel |-> Undefined, followUpDate |-> Undefined,
     workoutPlan |-> Undefined, personalizedPlan |-> Undefined,
     nutritionPlan |-> Undefined, nutritionSync |-> Undefined,
     progressTracking |-> Undefined, progressMetrics |-> Undefined]

RouteData == {PlanData, EmptyData}

RouteResults == RouteData \cup {UndefinedObject}

\* Reading a property of req.body: undefined when the field is absent.
Property(o) == OrDefault(o, UndefinedObject)

\* What a provider's analyze rejects with: an Error, an Error with an empty
\* message, or a value that is no Error.
RouteRejections == {Error("e1"), Error(""), [isError |-> FALSE, message |-> "e1"]}

\* new Date(text).toISOString() on a date.
toISOString(date) == date \o "T00:00:00.000Z"

\* The rest of a handler once `await aiBrain.<helper>(...)` is over: what its
\* catch answers when the promise is rejected or reading result.data throws,
\* 500 with the envelope's error (or the default text) when success is false,
\* otherwise 200 with the record built from result.data.
HandlerRest(promise, default, failed, build) ==
    IF promise.state = "rejected" THEN Failure(500, failed)
    ELSE IF ~promise.value.success
    THEN Failure(500, OrElse(promise.value.error, default))
    ELSE IF promise.value.data = UndefinedObject THEN Failure(500, failed)
    ELSE Json(build[promise.value.data])

NutritionResponse(body, promise) ==
    HandlerRest(promise, "Nutrition analysis failed", "Failed to create nutrition analysis",
        [data \in RouteData |->
            [foodItems |-> Property(body.foodItems),
             nutritionalBreakdown |-> OrElse(data.nutritionalBreakdown, "{}"),
             recommendations |-> OrElse(data.recommendations, "{}")]])

MentalHealthResponse(body, promise) ==
    HandlerRest(promise, "Mental health assessment failed",
        "Failed to create mental health assessment",
        [data \in RouteData |->
            [assessmentType |-> Property(body.assessmentType),
             score |-> OrElse(data.score, "0"),
             riskLevel |-> OrElse(data.riskLevel, "low"),
             recommendations |-> OrElse(data.recommendations, "{}"),
             followUpDate |-> IF OrElse(data.followUpDate, "") = "" THEN "null"
                              ELSE toISOString(data.followUpDate)]])

FitnessResponse(body, promise) ==
    HandlerRest(promise, "Fitness plan creation failed", "Failed to create fitness plan",
        [data \in RouteData |->
            [fitnessLevel |-> FitnessLevel(body),
             workoutPlan |-> OrElse(data.workoutPlan, OrElse(data.personalizedPlan, "{}")),
             nutritionPlan |-> OrElse(data.nutritionPlan, OrElse(data.nutritionSync, "{}")),
             progressTracking |->
                 OrElse(data.progressTracking, OrElse(data.progressMetrics, "{}"))]])

\* ------------------------------------------------------------- AI service

\* The numbers of chat sessions created and of symptom analyses stored.
MaxSessions == 1

MaxAnalyses == 1

\* The number of writes to a chat session after which no further chat
\* message arrives.
MaxUpdates == 2

\* What openai.chat.completions.create does: it rejects, or it fulfils with a
\* response that has a first choice or none; the content of the choice is a
\* JSON text, another text, or empty.
JsonContent == "{\"condition\":\"flu\",\"urgency\":\"severe\"}"

OpenAIOutcomes ==
    {[state |-> "fulfilled", choices |-> TRUE, content |-> JsonContent],
     [state |-> "fulfilled", choices |-> TRUE, content |-> "Rest well."],
     [state |-> "fulfilled", choices |-> TRUE, content |-> ""],
     [state |-> "fulfilled", choices |-> FALSE, content |-> ""],
     [state |-> "rejected", choices |-> FALSE, content |-> ""]}

\* The try block of an AIService method throws before it returns: the call
\* rejected, or reading response.choices[0].message threw.
CompletionThrows(outcome) == outcome.state = "rejected" \/ ~outcome.choices

\* JSON.parse(content || '{}') on the contents of the model: the object, or
\* a SyntaxError.
JsonParseThrows(content) == content \notin {"", JsonContent}

JsonParse(content) ==
    IF content = JsonContent THEN [condition |-> "flu", urgency |-> "severe"]
    ELSE [condition |-> Undefined, urgency |-> Undefined]

Returns(value) == [throws |-> FALSE, error |-> Null, value |-> value]

Throws(error) == [throws |-> TRUE, error |-> error, value |-> Undefined]

\* An analyzeSymptoms whose catch block throws what it caught.
analyzeSymptomsRethrows(outcome) ==
    IF CompletionThrows(outcome) THEN Throws(Error("Connection error."))
    ELSE IF JsonParseThrows(outcome.content) THEN Throws(Error("Unexpected token"))
    ELSE LET result == JsonParse(outcome.content)
         IN  Returns([condition |-> OrElse(result.condition, "Unable to determine"),
                      urgency |-> IF result.urgency \in {"low", "medium", "high"}
                                  THEN result.urgency ELSE "medium"])

\* AIService.analyzeSymptoms on what the completion does (confidence,
\* description and recommendations are built like condition).
analyzeSymptoms(outcome) ==
    IF CompletionThrows(outcome) \/ JsonParseThrows(outcome.content)
    THEN Throws(Error("Failed to analyze symptoms. Please try again later."))
    ELSE LET result == JsonParse(outcome.content)
         IN  Returns([condition |-> OrElse(result.condition, "Unable to determine"),
                      urgency |-> IF result.urgency \in {"low", "medium", "high"}
                                  THEN result.urgency ELSE "medium"])

\* AIService.getChatResponse
getChatResponse(outcome) ==
    IF CompletionThrows(outcome)
    THEN Throws(Error("Failed to get AI response. Please try again later."))
    ELSE Returns(OrElse(outcome.content,
           "I apologize, but I'm having trouble processing your message right now. Please try again."))

\* AIService.analyzeHealthTrends
analyzeHealthTrends(outcome) ==
    IF CompletionThrows(outcome)
    THEN Throws(Error("Failed to analyze health trends. Please try again later."))
    ELSE Returns(OrElse(outcome.content, "Unable to analyze health trends at this time."))

\* schema.parse(req.body) of POST /api/symptoms/analyze throws a ZodError:
\* symptoms is a string of at least 10 characters.
SymptomsSchemaThrows(body) ==
    \/ body.symptoms = Absent
    \/ ~IsString(body.symptoms[1])
    \/ Len(body.symptoms[1].string) < 10

\* schema.parse(req.body) of POST /api/chat/message throws a ZodError:
\* sessionId is required and message is not empty.
ChatSchemaThrows(body) ==
    \/ body.sessionId = Absent
    \/ body.message = ""

\* The request bodies of the routes, and the userId of the query string.
SymptomsBodies ==
    [symptoms : {Absent, Given(Str("cough")), Given(Str("cough and fever")), Given(Num(5, 0))}]

ChatMessage(role, content) == [role |-> role, content |-> content]

ChatBodies ==
    [sessionId : {Absent, Given(1), Given(2)},
     message : {"", "m1", "m2"},
     messages : {<<>>, <<ChatMessage("assistant", "Hello.")>>}]

\* What the completion does for the chat route with two requests in flight.
ChatOutcomes ==
    {[state |-> "fulfilled", choices |-> TRUE, content |-> "Rest well."],
     [state |-> "fulfilled", choices |-> TRUE, content |-> ""],
     [state |-> "rejected", choices |-> FALSE, content |-> ""]}

UserIds == {Absent, Given("u1")}

\* The messages a stored session holds, or null when no session has the id.
SessionMessages(sessions, id) ==
    IF \E i \in 1..Len(sessions) : sessions[i].id = id
    THEN (sessions[CHOOSE i \in 1..Len(sessions) : sessions[i].id = id]).messages
    ELSE <<Null>>

\* An updateChatSession that adds the messages to those stored.
updateChatSessionAppends(sessions, id, messages) ==
    [i \in 1..Len(sessions) |->
        IF sessions[i].id = id
        THEN [sessions[i] EXCEPT !.messages = @ \o messages, !.updatedAt = @ + 1]
        ELSE sessions[i]]

\* updateChatSession(id, messages) on the Map: the session of that id with
\* the messages replaced and a new updatedAt (kept as the number of writes
\* since createChatSession), and no change without such a session.
updateChatSession(sessions, id, messages) ==
    [i \in 1..Len(sessions) |->
        IF sessions[i].id = id
        THEN [sessions[i] EXCEPT !.messages = messages, !.updatedAt = @ + 1]
        ELSE sessions[i]]

\* ------------------------------------------------------------------ actions

\* The state once `export const aiBrain = new AIBrain()` has run: the
\* constructor called initialize(), which stands at its first await; nothing
\* is registered.
BrainInit ==
    /\ providers = <<>>
    /\ initPc = "awaiting"
    /\ imports = [m \in Modules |-> "none"]
    /\ regCount = 0
    /\ call = Idle

\* initialize() resumes after loadProviders and loadModels and calls
\* registerProviders, which starts the three imports.
RegisterProviders ==
    /\ initPc = "awaiting"
    /\ initPc' = "registering"
    /\ imports' = [m \in Modules |-> "pending"]
    /\ UNCHANGED <<providers, regCount, call, clinics, nextId, query,
                   search, handlers, chatSessions, symptomAnalyses>>

\* A then-callback that registers every class under one key.
ImportLoadedUnderOneKey(m) ==
    /\ imports[m] = "pending"
    /\ imports' = [imports EXCEPT ![m] = "loaded"]
    /\ providers' = registerProvider(providers, "provider", ModuleProvider(m))
    /\ UNCHANGED <<initPc, regCount, call, clinics, nextId, query,
                   search, handlers, chatSessions, symptomAnalyses>>

\* An import is fulfilled: its then-callback constructs and registers the provider.
ImportLoaded(m) ==
    /\ imports[m] = "pending"
    /\ imports' = [imports EXCEPT ![m] = "loaded"]
    /\ providers' = registerProvider(providers, m, ModuleProvider(m))
    /\ UNCHANGED <<initPc, regCount, call, clinics, nextId, query,
                   search, handlers, chatSessions, symptomAnalyses>>

\* A failure that ends registration: the imports still pending fail with it.
ImportFailedEndsRegistration(m) ==
    /\ imports[m] = "pending"
    /\ imports' = [n \in Modules |-> IF imports[n] = "pending" THEN "failed" ELSE imports[n]]
    /\ UNCHANGED <<providers, initPc, regCount, call, clinics, nextId, query,
                   search, handlers, chatSessions, symptomAnalyses>>

\* An import is rejected (or the constructor throws): the catch-callback logs.
ImportFailed(m) ==
    /\ imports[m] = "pending"
    /\ imports' = [imports EXCEPT ![m] = "failed"]
    /\ UNCHANGED <<providers, initPc, regCount, call, clinics, nextId, query,
                   search, handlers, chatSessions, symptomAnalyses>>

\* A call of the public registerProvider by other code.
RegisterProvider(key, provider) ==
    /\ regCount < MaxRegister
    /\ regCount' = regCount + 1
    /\ providers' = registerProvider(providers, key, provider)
    /\ UNCHANGED <<initPc, imports, call, clinics, nextId, query,
                   search, handlers, chatSessions, symptomAnalyses>>

\* The call once process has run to its first await.
Selected(request, registry) ==
    [pc |-> "selected", request |-> request, provider |-> selectProvider(registry),
     invoked |-> <<>>, settled |-> Pending, promise |-> Pending]

\* A process that starts only once registerProviders has run and each of its
\* imports is over.
ProcessAwaitsRegistration(request) ==
    /\ call.pc \in {"idle", "done"}
    /\ initPc = "registering"
    /\ \A m \in Modules : imports[m] \in {"loaded", "failed"}
    /\ call' = Selected(request, providers)
    /\ UNCHANGED <<providers, initPc, imports, regCount, clinics, nextId, query,
                   search, handlers, chatSessions, symptomAnalyses>>

\* process(request) is called: it runs to `await this.selectProvider(request)`,
\* selectProvider having run to its end on the registry as it is now.
Process(request) ==
    /\ call.pc \in {"idle", "done"}
    /\ call' = Selected(request, providers)
    /\ UNCHANGED <<providers, initPc, imports, regCount, clinics, nextId, query,
                   search, handlers, chatSessions, symptomAnalyses>>

\* process resumes with the selected provider: without one it throws into its
\* catch; otherwise it runs the switch, which throws or calls one method of
\* the provider and awaits it.
ProcessResume ==
    /\ call.pc = "selected"
    /\ LET d == Dispatch(call.request) IN
         IF NoProvider(call.provider)
         THEN call' = [call EXCEPT !.pc = "done", !.promise = ProcessCatch(NoProviderError)]
         ELSE IF d.throws
         THEN call' = [call EXCEPT !.pc = "done", !.promise = ProcessCatch(d.error)]
         ELSE call' = [call EXCEPT !.pc = "awaiting",
                          !.invoked = Append(call.invoked,
                              [provider |-> call.provider, method |-> d.method, args |-> d.args])]
    /\ UNCHANGED <<providers, initPc, imports, regCount, clinics, nextId, query,
                   search, handlers, chatSessions, symptomAnalyses>>

\* The awaited provider method fulfils with a result.
ProviderFulfils(result) ==
    /\ call.pc = "awaiting"
    /\ call' = [call EXCEPT !.pc = "done", !.settled = Fulfilled(result),
                             !.promise = ProcessReturn(call.provider, result)]
    /\ UNCHANGED <<providers, initPc, imports, regCount, clinics, nextId, query,
                   search, handlers, chatSessions, symptomAnalyses>>

\* A process that, when the awaited method rejects, calls it once more.
ProviderRejectsRetries(error) ==
    /\ call.pc = "awaiting"
    /\ IF Len(call.invoked) < 2
       THEN call' = [call EXCEPT !.invoked = Append(call.invoked, call.invoked[1])]
       ELSE call' = [call EXCEPT !.pc = "done", !.settled = Rejected(error),
                                 !.promise = ProcessCatch(error)]
    /\ UNCHANGED <<providers, initPc, imports, regCount, clinics, nextId, query,
                   search, handlers, chatSessions, symptomAnalyses>>

\* The awaited provider method rejects (or the method threw when called).
ProviderRejects(error) ==
    /\ call.pc = "awaiting"
    /\ call' = [call EXCEPT !.pc = "done", !.settled = Rejected(error),
                             !.promise = ProcessCatch(error)]
    /\ UNCHANGED <<providers, initPc, imports, regCount, clinics, nextId, query,
                   search, handlers, chatSessions, symptomAnalyses>>

\* ------------------------------------------------------- provider.analyze

\* The analysis types the requests of the boot specification carry.
AnalysisTypes == {"symptoms", "nutrition", "disease_trends", "research_updates"}

AnalysisRequests ==
    [requestType : {"analysis"}, specialization : AnalysisTypes,
     input : {InputObject}, fallback : {"undefined"}]

\* The cases of the switch of each class's analyze.
AnalyzeCases(name) ==
    CASE name = "openai" -> {"symptoms", "nutrition", "mental_health", "fitness"}
      [] name = "gemini" -> {"symptoms", "nutrition", "mental_health", "fitness"}
      [] name = "perplexity" -> {"symptoms", "disease_trends", "research_updates"}

\* The prefix each class's analyze puts before the message of what it caught.
AnalysisErrorPrefix(name) ==
    CASE name = "openai" -> "OpenAI analysis error: "
      [] name = "gemini" -> "Gemini analysis error: "
      [] name = "perplexity" -> "Perplexity analysis error: "

\* What the upstream call of analyze can throw: an Error, or something that
\* is not an Error.
UpstreamFailures == {Error("e1"), [isError |-> FALSE, message |-> "e1"]}

\* The catch of analyze: a new Error with the class's prefix.
AnalyzeCatch(name, error) ==
    Rejected(Error(AnalysisErrorPrefix(name) \o
                   (IF error.isError THEN error.message ELSE "Unknown error")))

\* An analyze whose switch has no default: every type reaches the upstream call.
analyzeAnyType(provider, type) ==
    {Fulfilled(r) : r \in Results}
        \cup {AnalyzeCatch(provider.name, e) : e \in UpstreamFailures}

\* analyze(input, type) of the three classes, as the promises it can return:
\* a type the switch has no case for throws in its default, into the catch;
\* otherwise the upstream call fulfils or fails.
analyze(provider, type) ==
    IF type \notin AnalyzeCases(provider.name)
    THEN {AnalyzeCatch(provider.name, Error("Unsupported analysis type: " \o type))}
    ELSE {Fulfilled(r) : r \in Results}
            \cup {AnalyzeCatch(provider.name, e) : e \in UpstreamFailures}

\* The analyze that process awaits settles, and process returns.
AnalyzeSettles ==
    /\ call.pc = "awaiting"
    /\ LET invocation == call.invoked[Len(call.invoked)] IN
         /\ invocation.method = "analyze"
         /\ \E outcome \in analyze(invocation.provider, invocation.args[2]) :
                call' = [call EXCEPT !.pc = "done", !.settled = outcome,
                            !.promise = IF outcome.state = "fulfilled"
                                        THEN ProcessReturn(call.provider, outcome.value)
                                        ELSE ProcessCatch(outcome.reason)]
    /\ UNCHANGED <<providers, initPc, imports, regCount, clinics, nextId, query,
                   search, handlers, chatSessions, symptomAnalyses>>

\* The state once `export const storage = new MemStorage()` has run: the
\* three sample clinics are stored.
StoreInit ==
    /\ clinics = SampleClinics
    /\ nextId = Len(SampleClinics)
    /\ query = UndefinedObject
    /\ search = UndefinedObject

\* A createClinic whose id is that of the first clinic stored: Map.set
\* replaces the value under that key.
CreateClinicReusesId(insertClinic) ==
    /\ nextId < Len(SampleClinics) + MaxClinics
    /\ nextId' = nextId + 1
    /\ clinics' = [clinics EXCEPT ![1] =
                    [id |-> clinics[1].id, name |-> insertClinic.name,
                     address |-> insertClinic.address,
                     latitude |-> insertClinic.latitude,
                     longitude |-> insertClinic.longitude,
                     type |-> insertClinic.type]]
    /\ UNCHANGED <<query, providers, initPc, imports, regCount, call,
                   search, handlers, chatSessions, symptomAnalyses>>

\* createClinic(insertClinic): the clinic is stored under a fresh id.
CreateClinic(insertClinic) ==
    /\ nextId < Len(SampleClinics) + MaxClinics
    /\ nextId' = nextId + 1
    /\ clinics' = Append(clinics,
                    [id |-> nextId + 1, name |-> insertClinic.name,
                     address |-> insertClinic.address,
                     latitude |-> insertClinic.latitude,
                     longitude |-> insertClinic.longitude,
                     type |-> insertClinic.type])
    /\ UNCHANGED <<query, providers, initPc, imports, regCount, call,
                   search, handlers, chatSessions, symptomAnalyses>>

\* getClinicsByLocation(latitude, longitude, radius): the call with its
\* arguments, the array it read from the Map, and the list it returned.
GetClinicsByLocation(latitude, longitude, radius) ==
    /\ query' = [latitude |-> latitude, longitude |-> longitude, radius |-> radius,
                 clinics |-> clinics,
                 result |-> getClinicsByLocation(clinics, latitude, longitude, radius)]
    /\ UNCHANGED <<clinics, nextId, providers, initPc, imports, regCount, call,
                   search, handlers, chatSessions, symptomAnalyses>>

\* searchClinics(query, type): the call with its arguments, the array it read
\* from the Map, and the list it returned.
SearchClinics(searchQuery, type) ==
    /\ search' = [query |-> searchQuery, type |-> type, clinics |-> clinics,
                  result |-> searchClinics(clinics, searchQuery, type)]
    /\ UNCHANGED <<clinics, nextId, query, providers, initPc, imports, regCount, call,
                   handlers, chatSessions, symptomAnalyses>>

\* The request slots: two requests can be in flight at once.
Slots == {1, 2}

\* No request in a slot.
NoRequest == [pc |-> "idle"]

\* No handler has run and no chat session is stored.
RouteInit ==
    /\ handlers = [slot \in Slots |-> NoRequest]
    /\ chatSessions = <<>>
    /\ symptomAnalyses = <<>>

\* A handler has sent its response.
Responded(route, body, cl, response) ==
    [pc |-> "responded", route |-> route, body |-> body, clinics |-> cl,
     response |-> response]

\* A handler stands at an await.
Awaiting(pc, route, body) ==
    [pc |-> pc, route |-> route, body |-> body, clinics |-> <<>>,
     response |-> Failure(0, Undefined)]

\* A handler stands at `await storage.getClinicsByLocation(...)`: the call
\* has read the store as it was (cl) for a point and a radius (at), and the
\* handler will filter what it returns by a type and append the places of a
\* places search (places: what that search answered, null without one).
Reading(route, body, cl, at, type, places, googleClinics) ==
    [pc |-> "store", route |-> route, body |-> body, clinics |-> cl, at |-> at,
     type |-> type, places |-> places, googleClinics |-> googleClinics,
     response |-> Failure(0, Undefined)]

\* POST /api/clinics/search arrives: the body is parsed, and the handler
\* answers 400, or awaits the geocoder, or calls getClinicsByLocation and
\* awaits it, or reads the store and answers.
PostClinicsSearch(slot, body) ==
    /\ handlers[slot].pc \in {"idle", "responded"}
    /\ handlers' = [handlers EXCEPT ![slot] =
          IF SearchSchemaThrows(body)
          THEN Responded("clinics/search", body, <<>>, Invalid("Invalid data"))
          ELSE IF SearchGeocodes(body)
          THEN Awaiting("geocoding", "clinics/search", body)
          ELSE IF SearchLocates(body)
          THEN Reading("clinics/search", body, clinics,
                       <<body.latitude[1], body.longitude[1],
                         OrDefault(body.radius, Num(10, 0))>>,
                       body.type, Null, <<>>)
          ELSE Responded("clinics/search", body, clinics,
                         Json(FilterByType(SearchResults(clinics, body), body.type)))]
    /\ UNCHANGED <<providers, initPc, imports, regCount, call, clinics, nextId, query,
                   search, chatSessions, symptomAnalyses>>

\* geocodeAddress returns coords or null: with coords the handler calls
\* getClinicsByLocation and awaits it, with null it answers no results.
GeocodeReturns(slot, coords) ==
    /\ handlers[slot].pc = "geocoding"
    /\ handlers' = [handlers EXCEPT ![slot] =
          IF coords = Null
          THEN Responded("clinics/search", @.body, clinics,
                         Json(FilterByType(<<>>, @.body.type)))
          ELSE Reading("clinics/search", @.body, clinics,
                       <<coords.latitude, coords.longitude,
                         OrDefault(@.body.radius, Num(10, 0))>>,
                       @.body.type, Null, <<>>)]
    /\ UNCHANGED <<providers, initPc, imports, regCount, call, clinics, nextId, query,
                   search, chatSessions, symptomAnalyses>>

\* POST /api/clinics/nearby arrives: the body is parsed, and the handler
\* answers 400 or awaits searchNearbyHealthcare.
PostClinicsNearby(slot, body) ==
    /\ handlers[slot].pc \in {"idle", "responded"}
    /\ handlers' = [handlers EXCEPT ![slot] =
          IF NearbySchemaThrows(body)
          THEN Responded("clinics/nearby", body, <<>>, Invalid("Invalid data"))
          ELSE Awaiting("places", "clinics/nearby", body)]
    /\ UNCHANGED <<providers, initPc, imports, regCount, call, clinics, nextId, query,
                   search, chatSessions, symptomAnalyses>>

\* searchNearbyHealthcare is over: the handler calls getClinicsByLocation with
\* the radius in miles and awaits it (its catch block answers 500 had the
\* search thrown).
PlacesReturn(slot, outcome) ==
    /\ handlers[slot].pc = "places"
    /\ LET body == handlers[slot].body
           google == searchNearbyHealthcare(outcome, OrDefault(body.type, "hospital"))
       IN  handlers' = [handlers EXCEPT ![slot] =
              IF google.throws
              THEN [pc |-> "responded", route |-> "clinics/nearby", body |-> body,
                    clinics |-> clinics, places |-> outcome,
                    response |-> Failure(500, "Failed to find nearby clinics")]
              ELSE Reading("clinics/nearby", body, clinics,
                           <<body.latitude[1], body.longitude[1],
                             NearbyRadius(OrDefault(body.radius, Num(10000, 0)))>>,
                           Absent, outcome, google.clinics)]
    /\ UNCHANGED <<providers, initPc, imports, regCount, call, clinics, nextId, query,
                   search, chatSessions, symptomAnalyses>>

\* getClinicsByLocation is over: the handler of POST /api/clinics/search
\* filters the results by type and answers them, that of POST
\* /api/clinics/nearby answers them followed by the places at distance 0.
ClinicsByLocationReturn(slot) ==
    /\ handlers[slot].pc = "store"
    /\ LET h == handlers[slot]
           results == getClinicsByLocation(h.clinics, h.at[1], h.at[2], h.at[3])
       IN  handlers' = [handlers EXCEPT ![slot] =
              [pc |-> "responded", route |-> h.route, body |-> h.body,
               clinics |-> h.clinics, places |-> h.places,
               response |-> Json(FilterByType(results, h.type)
                                    \o AtDistanceZero(h.googleClinics))]]
    /\ UNCHANGED <<providers, initPc, imports, regCount, call, clinics, nextId, query,
                   search, chatSessions, symptomAnalyses>>

\* A handler that answered 400 before any dispatch, one that awaits the
\* promise of process, and one that answered after it.
Refused(route, body, error) ==
    [pc |-> "responded", route |-> route, body |-> body, request |-> Null,
     response |-> Invalid(error)]

Dispatched(route, body, request) ==
    [pc |-> "dispatched", route |-> route, body |-> body, request |-> request,
     response |-> Failure(0, Undefined)]

\* POST /api/nutrition-analyses arrives: the payload is validated, and the
\* handler answers 400 or calls aiBrain.analyzeNutrition and awaits it.
PostNutritionAnalyses(slot, body) ==
    /\ handlers[slot].pc \in {"idle", "responded"}
    /\ call.pc \in {"idle", "done"}
    /\ IF NutritionSchemaThrows(body)
       THEN /\ handlers' = [handlers EXCEPT ![slot] =
                   Refused("nutrition-analyses", body, "Invalid input data")]
            /\ UNCHANGED call
       ELSE LET request == analyzeNutrition(Property(body.foodItems),
                               [healthGoals |-> Property(body.healthGoals)])
            IN  /\ handlers' = [handlers EXCEPT ![slot] =
                       Dispatched("nutrition-analyses", body, request)]
                /\ call' = Selected(request, providers)
    /\ UNCHANGED <<providers, initPc, imports, regCount, clinics, nextId, query,
                   search, chatSessions, symptomAnalyses>>

\* POST /api/mental-health-assessments arrives.
PostMentalHealthAssessments(slot, body) ==
    /\ handlers[slot].pc \in {"idle", "responded"}
    /\ call.pc \in {"idle", "done"}
    /\ IF MentalHealthSchemaThrows(body)
       THEN /\ handlers' = [handlers EXCEPT ![slot] =
                   Refused("mental-health-assessments", body, "Invalid input data")]
            /\ UNCHANGED call
       ELSE LET request == assessMentalHealth(Property(body.responses),
                                              Property(body.assessmentType))
            IN  /\ handlers' = [handlers EXCEPT ![slot] =
                       Dispatched("mental-health-assessments", body, request)]
                /\ call' = Selected(request, providers)
    /\ UNCHANGED <<providers, initPc, imports, regCount, clinics, nextId, query,
                   search, chatSessions, symptomAnalyses>>

\* POST /api/fitness-plans arrives.
PostFitnessPlans(slot, body) ==
    /\ handlers[slot].pc \in {"idle", "responded"}
    /\ call.pc \in {"idle", "done"}
    /\ IF FitnessSchemaThrows(body)
       THEN /\ handlers' = [handlers EXCEPT ![slot] =
                   Refused("fitness-plans", body, "Invalid input data")]
            /\ UNCHANGED call
       ELSE LET request == createFitnessPlan(Property(body.userProfile),
                                             Property(body.goals))
            IN  /\ handlers' = [handlers EXCEPT ![slot] =
                       Dispatched("fitness-plans", body, request)]
                /\ call' = Selected(request, providers)
    /\ UNCHANGED <<providers, initPc, imports, regCount, clinics, nextId, query,
                   search, chatSessions, symptomAnalyses>>

\* The promise of process is settled: the handler that awaits it resumes and
\* answers.
BrainResponds(slot) ==
    /\ handlers[slot].pc = "dispatched"
    /\ call.pc = "done"
    /\ handlers' = [handlers EXCEPT ![slot] =
          [pc |-> "responded", route |-> @.route, body |-> @.body, request |-> @.request,
           response |->
             CASE @.route = "nutrition-analyses" -> NutritionResponse(@.body, call.promise)
               [] @.route = "mental-health-assessments" ->
                     MentalHealthResponse(@.body, call.promise)
               [] @.route = "fitness-plans" -> FitnessResponse(@.body, call.promise)]]
    /\ UNCHANGED <<providers, initPc, imports, regCount, call, clinics, nextId, query,
                   search, chatSessions, symptomAnalyses>>

\* A handler that awaits a method of aiService, and one that answered; caught
\* is what the handler's catch block caught, and seen the messages the chat
\* session held when the request arrived.
Calling(route, body, seen) ==
    [pc |-> "openai", route |-> route, body |-> body, request |-> Null,
     caught |-> Null, seen |-> seen, response |-> Failure(0, Undefined)]

Answer(route, body, caught, seen, response) ==
    [pc |-> "responded", route |-> route, body |-> body, request |-> Null,
     caught |-> caught, seen |-> seen, response |-> response]

\* POST /api/symptoms/analyze arrives: the body is parsed, and the handler
\* answers 400 or calls aiService.analyzeSymptoms and awaits it.
PostSymptomsAnalyze(slot, body) ==
    /\ handlers[slot].pc \in {"idle", "responded"}
    /\ Len(symptomAnalyses) < MaxAnalyses
    /\ handlers' = [handlers EXCEPT ![slot] =
          IF SymptomsSchemaThrows(body)
          THEN Answer("symptoms/analyze", body, Null, <<>>, Invalid("Invalid data"))
          ELSE Calling("symptoms/analyze", body, <<>>)]
    /\ UNCHANGED <<providers, initPc, imports, regCount, call, clinics, nextId, query,
                   search, chatSessions, symptomAnalyses>>

\* analyzeSymptoms is over: the handler stores the analysis and answers it, or
\* its catch block answers 500.
SymptomsAnalysisReturns(slot, outcome) ==
    /\ handlers[slot].pc = "openai"
    /\ handlers[slot].route = "symptoms/analyze"
    /\ LET analysis == analyzeSymptoms(outcome)
           id == Len(symptomAnalyses) + 1
       IN  IF analysis.throws
           THEN /\ handlers' = [handlers EXCEPT ![slot] =
                       Answer(@.route, @.body, analysis.error, <<>>,
                              Failure(500, "Failed to analyze symptoms"))]
                /\ UNCHANGED symptomAnalyses
           ELSE /\ symptomAnalyses' = Append(symptomAnalyses,
                       [id |-> id, symptoms |-> handlers[slot].body.symptoms[1],
                        analysis |-> analysis.value])
                /\ handlers' = [handlers EXCEPT ![slot] =
                       Answer(@.route, @.body, Null, <<>>,
                              Json([id |-> id, analysis |-> analysis.value]))]
    /\ UNCHANGED <<providers, initPc, imports, regCount, call, clinics, nextId, query,
                   search, chatSessions>>

\* POST /api/chat/sessions: createChatSession stores a session under a fresh id.
CreateChatSession ==
    /\ Len(chatSessions) < MaxSessions
    /\ chatSessions' = Append(chatSessions,
          [id |-> Len(chatSessions) + 1, messages |-> <<>>, updatedAt |-> 0])
    /\ UNCHANGED <<providers, initPc, imports, regCount, call, clinics, nextId, query,
                   search, handlers, symptomAnalyses>>

\* POST /api/chat/message arrives: the body is parsed, and the handler answers
\* 400 or calls aiService.getChatResponse and awaits it.
PostChatMessage(slot, body) ==
    /\ handlers[slot].pc \in {"idle", "responded"}
    /\ \A i \in 1..Len(chatSessions) : chatSessions[i].updatedAt < MaxUpdates
    /\ handlers' = [handlers EXCEPT ![slot] =
          IF ChatSchemaThrows(body)
          THEN Answer("chat/message", body, Null, <<>>, Invalid("Invalid data"))
          ELSE Calling("chat/message", body, SessionMessages(chatSessions, body.sessionId[1]))]
    /\ UNCHANGED <<providers, initPc, imports, regCount, call, clinics, nextId, query,
                   search, chatSessions, symptomAnalyses>>

\* A handler that keeps the user's message when getChatResponse throws: its
\* catch block writes the conversation so far to the session.
ChatResponseReturnsKeepsMessage(slot, outcome) ==
    /\ handlers[slot].pc = "openai"
    /\ handlers[slot].route = "chat/message"
    /\ LET aiResponse == getChatResponse(outcome)
           body == handlers[slot].body
           conversationMessages == Append(body.messages, ChatMessage("user", body.message))
           aiMessage == ChatMessage("assistant", aiResponse.value)
           updatedMessages == Append(conversationMessages, aiMessage)
       IN  IF aiResponse.throws
           THEN /\ handlers' = [handlers EXCEPT ![slot] =
                       Answer(@.route, @.body, aiResponse.error, @.seen,
                              Failure(500, "Failed to process chat message"))]
                /\ chatSessions' = updateChatSession(chatSessions, body.sessionId[1],
                                                     conversationMessages)
           ELSE /\ chatSessions' = updateChatSession(chatSessions, body.sessionId[1],
                                                     updatedMessages)
                /\ handlers' = [handlers EXCEPT ![slot] =
                       Answer(@.route, @.body, Null, @.seen,
                              Json([message |-> aiMessage, sessionId |-> body.sessionId[1]]))]
    /\ UNCHANGED <<providers, initPc, imports, regCount, call, clinics, nextId, query,
                   search, symptomAnalyses>>

\* getChatResponse is over: the handler writes the conversation with the
\* user's message and the reply to the session and answers the reply, or its
\* catch block answers 500.
ChatResponseReturns(slot, outcome) ==
    /\ handlers[slot].pc = "openai"
    /\ handlers[slot].route = "chat/message"
    /\ LET aiResponse == getChatResponse(outcome)
           body == handlers[slot].body
           conversationMessages == Append(body.messages, ChatMessage("user", body.message))
           aiMessage == ChatMessage("assistant", aiResponse.value)
           updatedMessages == Append(conversationMessages, aiMessage)
       IN  IF aiResponse.throws
           THEN /\ handlers' = [handlers EXCEPT ![slot] =
                       Answer(@.route, @.body, aiResponse.error, @.seen,
                              Failure(500, "Failed to process chat message"))]
                /\ UNCHANGED chatSessions
           ELSE /\ chatSessions' = updateChatSession(chatSessions, body.sessionId[1],
                                                     updatedMessages)
                /\ handlers' = [handlers EXCEPT ![slot] =
                       Answer(@.route, @.body, Null, @.seen,
                              Json([message |-> aiMessage, sessionId |-> body.sessionId[1]]))]
    /\ UNCHANGED <<providers, initPc, imports, regCount, call, clinics, nextId, query,
                   search, symptomAnalyses>>

\* GET /api/health/trends arrives: without a userId the handler answers 400;
\* otherwise it reads the user's health logs (the store holds none) and
\* calls aiService.analyzeHealthTrends and awaits it.
GetHealthTrends(slot, userId) ==
    /\ handlers[slot].pc \in {"idle", "responded"}
    /\ handlers' = [handlers EXCEPT ![slot] =
          IF userId = Absent
          THEN Answer("health/trends", userId, Null, <<>>, Failure(400, "User ID is required"))
          ELSE Calling("health/trends", userId, <<>>)]
    /\ UNCHANGED <<providers, initPc, imports, regCount, call, clinics, nextId, query,
                   search, chatSessions, symptomAnalyses>>

\* analyzeHealthTrends is over: the handler answers the analysis, or its catch
\* block answers 500.
HealthTrendsReturns(slot, outcome) ==
    /\ handlers[slot].pc = "openai"
    /\ handlers[slot].route = "health/trends"
    /\ LET analysis == analyzeHealthTrends(outcome)
       IN  handlers' = [handlers EXCEPT ![slot] =
             IF analysis.throws
             THEN Answer(@.route, @.body, analysis.error, <<>>,
                         Failure(500, "Failed to analyze health trends"))
             ELSE Answer(@.route, @.body, Null, <<>>,
                         Json([analysis |-> analysis.value, logCount |-> 0]))]
    /\ UNCHANGED <<providers, initPc, imports, regCount, call, clinics, nextId, query,
                   search, chatSessions, symptomAnalyses>>

Init == BrainInit /\ StoreInit /\ RouteInit

\* The dispatcher: the registry fills from the three imports and from the
\* registrations of DispatchRegistrations, and process is called with every
\* request of Requests.
Next ==
    \/ RegisterProviders
    \/ \E m \in Modules : ImportLoaded(m)
    \/ \E m \in Modules : ImportFailed(m)
    \/ \E kp \in DispatchRegistrations : RegisterProvider(kp[1], kp[2])
    \/ \E r \in Requests : Process(r)
    \/ ProcessResume
    \/ \E v \in Results : ProviderFulfils(v)
    \/ \E e \in Rejections : ProviderRejects(e)

Spec == Init /\ [][Next]_vars

\* The dispatcher as the server runs it: the registry fills from the three
\* imports only, and process is called with analysis requests, which the
\* analyze of the selected class settles.
BootNext ==
    \/ RegisterProviders
    \/ \E m \in Modules : ImportLoaded(m)
    \/ \E m \in Modules : ImportFailed(m)
    \/ \E r \in AnalysisRequests : Process(r)
    \/ ProcessResume
    \/ AnalyzeSettles

BootSpec == Init /\ [][BootNext]_vars

\* The same, where initialize resumes and every import settles: the event
\* loop runs the continuation of initialize, and a module load ends, loaded
\* or failed.
BootFairSpec ==
    /\ BootSpec
    /\ WF_vars(RegisterProviders)
    /\ \A m \in Modules : WF_vars(ImportLoaded(m) \/ ImportFailed(m))

\* The registry: every registration of CustomKeys x CustomProviders, and
\* process called with one request, to apply selectProvider.
RegistryNext ==
    \/ RegisterProviders
    \/ \E m \in Modules : ImportLoaded(m)
    \/ \E m \in Modules : ImportFailed(m)
    \/ \E k \in CustomKeys, p \in CustomProviders : RegisterProvider(k, p)
    \/ Process(SymptomsRequest)
    \/ ProcessResume
    \/ ProviderFulfils("r1")

RegistrySpec == Init /\ [][RegistryNext]_vars

\* The clinic store.
StoreNext ==
    \/ \E c \in InsertClinics : CreateClinic(c)
    \/ \E p \in QueryPoints, r \in Radii : GetClinicsByLocation(p[1], p[2], r)

StoreSpec == Init /\ [][StoreNext]_vars

\* The clinic store under text search.
SearchNext ==
    \/ \E c \in SearchInsertClinics : CreateClinic(c)
    \/ \E q \in SearchQueries, t \in SearchTypes : SearchClinics(q, t)

SearchSpec == Init /\ [][SearchNext]_vars

\* The two clinic routes over the store, one request at a time.
ClinicRouteNext ==
    \/ \E c \in RouteInsertClinics : CreateClinic(c)
    \/ \E b \in SearchBodies : PostClinicsSearch(1, b)
    \/ \E g \in GeocodeResults : GeocodeReturns(1, g)
    \/ \E b \in NearbyBodies : PostClinicsNearby(1, b)
    \/ \E o \in PlacesOutcomes : PlacesReturn(1, o)
    \/ ClinicsByLocationReturn(1)

ClinicRouteSpec == Init /\ [][ClinicRouteNext]_vars

\* The three routes that go through the dispatcher, one request at a time,
\* over a registry that a registration fills.
BrainRouteNext ==
    \/ \E kp \in DispatchRegistrations : RegisterProvider(kp[1], kp[2])
    \/ \E b \in NutritionBodies : PostNutritionAnalyses(1, b)
    \/ \E b \in MentalHealthBodies : PostMentalHealthAssessments(1, b)
    \/ \E b \in FitnessBodies : PostFitnessPlans(1, b)
    \/ ProcessResume
    \/ \E v \in RouteResults : ProviderFulfils(v)
    \/ \E e \in RouteRejections : ProviderRejects(e)
    \/ BrainResponds(1)

BrainRouteSpec == Init /\ [][BrainRouteNext]_vars

\* The three routes that go through aiService, one request at a time.
ServiceRouteNext ==
    \/ \E b \in SymptomsBodies : PostSymptomsAnalyze(1, b)
    \/ \E o \in OpenAIOutcomes : SymptomsAnalysisReturns(1, o)
    \/ CreateChatSession
    \/ \E b \in ChatBodies : PostChatMessage(1, b)
    \/ \E o \in OpenAIOutcomes : ChatResponseReturns(1, o)
    \/ \E u \in UserIds : GetHealthTrends(1, u)
    \/ \E o \in OpenAIOutcomes : HealthTrendsReturns(1, o)

ServiceRouteSpec == Init /\ [][ServiceRouteNext]_vars

\* The five POST routes that ask an AI, one request at a time, each with a
\* payload that validates and one that does not.
RouteNext ==
    \/ \E kp \in DispatchRegistrations : RegisterProvider(kp[1], kp[2])
    \/ \E b \in {n \in NutritionBodies : n.healthGoals = Absent} :
          PostNutritionAnalyses(1, b)
    \/ \E b \in {m \in MentalHealthBodies : m.assessmentType = Given(Str("anxiety"))} :
          PostMentalHealthAssessments(1, b)
    \/ \E b \in {f \in FitnessBodies : f.userProfile = Absent} : PostFitnessPlans(1, b)
    \/ ProcessResume
    \/ ProviderFulfils(PlanData)
    \/ ProviderRejects(Error("e1"))
    \/ BrainResponds(1)
    \/ \E b \in SymptomsBodies : PostSymptomsAnalyze(1, b)
    \/ \E o \in ChatOutcomes : SymptomsAnalysisReturns(1, o)
    \/ \E b \in {c \in ChatBodies : c.message # "m2" /\ c.sessionId # Given(2)} :
          PostChatMessage(1, b)
    \/ \E o \in ChatOutcomes : ChatResponseReturns(1, o)

RouteSpec == Init /\ [][RouteNext]_vars

\* The chat route with two requests in flight.
ChatNext ==
    \/ CreateChatSession
    \/ \E slot \in Slots, b \in ChatBodies : PostChatMessage(slot, b)
    \/ \E slot \in Slots, o \in ChatOutcomes : ChatResponseReturns(slot, o)

ChatSpec == Init /\ [][ChatNext]_vars

\* ------------------------------------------------------------------- claims

\* What the registry order and the fields say selectProvider must return: of
\* the entries whose provider is active and of the greatest priority among
\* the active ones, the provider of the first in the registry's order.
TopActive(m) ==
    {i \in 1..Len(m) :
        /\ m[i].provider.isActive
        /\ \A j \in 1..Len(m) :
              m[j].provider.isActive => m[j].provider.priority <= m[i].provider.priority}

FirstTopActive(m) ==
    IF TopActive(m) = {} THEN Null
    ELSE m[CHOOSE i \in TopActive(m) : \A j \in TopActive(m) : i <= j].provider

\* A process call starts (and runs selectProvider) in this step.
ProcessStarts == call'.pc = "selected" /\ call.pc # "selected"

\* C1: whatever the registry holds when process selects, the provider selected
\* is active and of the highest priority among the active providers (never an
\* inactive one, whatever its priority), and among several such it is the one
\* whose key entered the registry first; with no active provider it is null.
C1_SelectHighestPriorityActive ==
    [][ProcessStarts => call'.provider = FirstTopActive(providers)]_vars

\* C1's case: two active providers of the same, highest, priority are
\* registered under different keys, and the one registered first was selected.
C1_Witness ==
    /\ call.pc = "selected"
    /\ call.provider = selectProvider(providers)
    /\ Cardinality(TopActive(providers)) >= 2
    /\ \E i \in TopActive(providers) :
          providers[i].provider # call.provider

\* The envelope process returned, once it has.
Done == call.pc = "done"

Envelope == call.promise.value

\* C2 as stated: with no active provider at selection, the envelope has
\* success=false and error "NoProviderAvailable", and no provider method was
\* invoked.
C2_AsStated ==
    (Done /\ call.provider = Null) =>
        /\ call.promise.state = "fulfilled"
        /\ Envelope.success = FALSE
        /\ Envelope.error = "NoProviderAvailable"
        /\ call.invoked = <<>>

\* C2, amended: with no active provider at selection (the registry empty, or
\* every provider inactive), process fulfils with success=false and the error
\* "No suitable AI provider available", and no provider method was invoked.
C2_NoProviderEnvelope ==
    (Done /\ call.provider = Null) =>
        /\ call.promise.state = "fulfilled"
        /\ Envelope.success = FALSE
        /\ Envelope.error = "No suitable AI provider available"
        /\ call.invoked = <<>>

\* C2's case: a call finished with no provider selected while the registry
\* holds providers, all of them inactive.
C2_Witness ==
    /\ Done
    /\ call.provider = Null
    /\ Len(providers) > 0
    /\ \A i \in 1..Len(providers) : ~providers[i].provider.isActive

\* The awaited provider method rejected.
ProviderRejected == Done /\ call.settled.state = "rejected"

\* C3 as stated: process always fulfils, and when the provider call rejects
\* the envelope has success=false and the rejected value's message as error.
C3_AsStated ==
    /\ Done => call.promise.state = "fulfilled"
    /\ ProviderRejected =>
          /\ Envelope.success = FALSE
          /\ Envelope.error = call.settled.reason.message

\* C3, amended: process always fulfils with an envelope and never rejects,
\* also for a request without input object; when the provider call rejects,
\* the envelope has success=false, and its error is the message of the
\* rejected value when that is an Error and "Unknown error" when it is not.
C3_AlwaysFulfilsWithError ==
    /\ Done => call.promise.state = "fulfilled"
    /\ ProviderRejected =>
          /\ Envelope.success = FALSE
          /\ call.settled.reason.isError =>
                Envelope.error = call.settled.reason.message
          /\ ~call.settled.reason.isError => Envelope.error = "Unknown error"

\* C3's case: the provider was called with no input object and rejected with
\* a value that is not an Error.
C3_Witness ==
    /\ ProviderRejected
    /\ call.request.input = UndefinedObject
    /\ ~call.settled.reason.isError

\* C4: during one process call at most one provider method is invoked, on the
\* selected provider, and exactly once when the awaited method settled; a
\* failed call has no second invocation, on this provider or on another.
C4_SingleAttempt ==
    /\ Len(call.invoked) <= 1
    /\ \A i \in 1..Len(call.invoked) : call.invoked[i].provider = call.provider
    /\ call.pc \in {"idle", "selected"} => call.invoked = <<>>
    /\ call.pc = "awaiting" => Len(call.invoked) = 1
    /\ (Done /\ call.settled # Pending) => Len(call.invoked) = 1

\* C4's case: the call failed after its one invocation while another active
\* provider was registered.
C4_Witness ==
    /\ ProviderRejected
    /\ Len(call.invoked) = 1
    /\ \E i \in 1..Len(providers) :
          providers[i].provider.isActive /\ providers[i].provider # call.provider

\* C5 as stated: every envelope carries the name of the selected provider,
\* when the provider call succeeded and when it failed.
C5_AsStated ==
    (Done /\ call.provider # Null) => Envelope.provider = call.provider.name

\* C5, amended: the envelope of a call that succeeded carries the name of the
\* provider selected and used; the envelope of a call that failed carries
\* "unknown", whether or not a provider was selected.
C5_ProviderEcho ==
    Done =>
        /\ Envelope.success => Envelope.provider = call.provider.name
        /\ ~Envelope.success => Envelope.provider = "unknown"

\* C5's case: a call succeeded on a selected provider.
C5_Witness ==
    /\ Done
    /\ Envelope.success
    /\ call.provider # Null
    /\ Len(call.invoked) = 1

\* The provider method that corresponds to each of the five request kinds.
MethodOf(requestType) ==
    CASE requestType = "chat" -> "chat"
      [] requestType = "analysis" -> "analyze"
      [] requestType = "prediction" -> "predict"
      [] requestType = "education" -> "educate"
      [] requestType = "emotion" -> "processEmotion"
      [] OTHER -> "none"

\* C6: process invokes on the selected provider the method of the request's
\* kind and no other (analyze with the request's specialization as type), and
\* on success the envelope's data is the value that method returned.
C6_MethodOfKind ==
    /\ \A i \in 1..Len(call.invoked) :
          /\ call.invoked[i].method = MethodOf(call.request.requestType)
          /\ call.invoked[i].method = "analyze" =>
                call.invoked[i].args = <<call.request.input, call.request.specialization>>
    /\ (Done /\ Envelope.success) =>
          /\ Len(call.invoked) = 1
          /\ call.settled.state = "fulfilled"
          /\ Envelope.data = call.settled.value

\* C6's case: a prediction request succeeded with the value predict returned.
C6_Witness ==
    /\ Done
    /\ Envelope.success
    /\ call.request.requestType = "prediction"
    /\ call.invoked[1].method = "predict"
    /\ Envelope.data = "r2"

\* A getClinicsByLocation call has returned.
Queried == query # UndefinedObject

\* The place of a clinic, by its coordinate texts as numbers.
PlaceOf(clinic) == <<parseFloat(clinic.latitude), parseFloat(clinic.longitude)>>

\* The distance from the query point of the last call to a clinic.
FromQuery(clinic) ==
    calculateDistance(query.latitude, query.longitude, PlaceOf(clinic)[1], PlaceOf(clinic)[2])

\* The position of a clinic in the array the last call read from the store.
StorePosition(clinic) == CHOOSE k \in 1..Len(query.clinics) : query.clinics[k].id = clinic.id

\* a > b, false when either is NaN.
Exceeds(a, b) == a # NaN /\ b # NaN /\ Sub(a, b).m > 0

\* C7: no result of getClinicsByLocation has a distance above the radius asked for.
C7_WithinRadius ==
    Queried =>
        \A i \in 1..Len(query.result) :
            ~Exceeds(query.result[i].distance, query.radius)

\* C7's case: a call returned some clinics and left out a clinic whose
\* distance is a number above the radius.
C7_Witness ==
    /\ Queried
    /\ Len(query.result) >= 1
    /\ \E k \in 1..Len(query.clinics) :
          Exceeds(FromQuery(query.clinics[k]), query.radius)

\* C8: the list returned is in non-decreasing order of distance, and two
\* results of equal distance are in the order the store holds their clinics.
C8_SortedStable ==
    Queried =>
        \A i, j \in 1..Len(query.result) :
            i < j =>
                /\ Sub(query.result[i].distance, query.result[j].distance).m <= 0
                /\ query.result[i].distance = query.result[j].distance =>
                      StorePosition(query.result[i].clinic) < StorePosition(query.result[j].clinic)

\* C8's case: the list returned holds two clinics of equal distance, and a
\* clinic that the store holds after another one but that is nearer.
C8_Witness ==
    /\ Queried
    /\ \E i, j \in 1..Len(query.result) :
          i < j /\ query.result[i].distance = query.result[j].distance
    /\ \E i, j \in 1..Len(query.result) :
          /\ i < j
          /\ query.result[i].distance # query.result[j].distance
          /\ StorePosition(query.result[i].clinic) > StorePosition(query.result[j].clinic)

\* C9: the list returned holds exactly the stored clinics whose distance to
\* the query point is <= radius, each once and with that distance; with
\* radius 0 these are the clinics at the query point; from an empty store the
\* list is empty.
C9_ExactlyWithinRadius ==
    Queried =>
        /\ \A k \in 1..Len(query.clinics) :
              Cardinality({i \in 1..Len(query.result) :
                              query.result[i].clinic = query.clinics[k]})
                  = IF Leq(FromQuery(query.clinics[k]), query.radius) THEN 1 ELSE 0
        /\ \A i \in 1..Len(query.result) :
              /\ \E k \in 1..Len(query.clinics) : query.result[i].clinic = query.clinics[k]
              /\ query.result[i].distance = FromQuery(query.result[i].clinic)
        /\ query.radius = Zero =>
              \A k \in 1..Len(query.clinics) :
                  (\E i \in 1..Len(query.result) : query.result[i].clinic = query.clinics[k])
                      <=> PlaceOf(query.clinics[k]) = <<query.latitude, query.longitude>>
        /\ getClinicsByLocation(<<>>, query.latitude, query.longitude, query.radius) = <<>>

\* C9's case: a call with radius 0 returned the two clinics at the query
\* point and none of the others.
C9_Witness ==
    /\ Queried
    /\ query.radius = Zero
    /\ Len(query.result) = 2
    /\ Len(query.clinics) > 2

\* The places calculateDistance has been applied to in the last call: the
\* query point and the place of each clinic whose texts are numbers.
Places ==
    {<<query.latitude, query.longitude>>}
        \cup {PlaceOf(query.clinics[k]) : k \in 1..Len(query.clinics)}

Points == {p \in Places : p[1] # NaN /\ p[2] # NaN}

\* C10: calculateDistance is zero from a point to itself and the same in
\* both directions between two points; so is every distance a call returned.
C10_ZeroAndSymmetric ==
    Queried =>
        /\ \A a \in Points : calculateDistance(a[1], a[2], a[1], a[2]) = Zero
        /\ \A a, b \in Points :
              calculateDistance(a[1], a[2], b[1], b[2]) = calculateDistance(b[1], b[2], a[1], a[2])
        /\ \A i \in 1..Len(query.result) :
              query.result[i].distance =
                  calculateDistance(PlaceOf(query.result[i].clinic)[1],
                                    PlaceOf(query.result[i].clinic)[2],
                                    query.latitude, query.longitude)

\* C10's case: a call returned a clinic at the query point with distance 0
\* and clinics elsewhere, at other latitudes and longitudes, with distances
\* above 0.
C10_Witness ==
    /\ Queried
    /\ \E i \in 1..Len(query.result) :
          /\ PlaceOf(query.result[i].clinic) = <<query.latitude, query.longitude>>
          /\ query.result[i].distance = Zero
    /\ \E i \in 1..Len(query.result) :
          /\ PlaceOf(query.result[i].clinic)[1] # query.latitude
          /\ PlaceOf(query.result[i].clinic)[2] # query.longitude
          /\ query.result[i].distance.m > 0

\* A searchClinics call has returned.
Searched == search # UndefinedObject

\* t holds s as a substring when letter case is ignored: at some position the
\* characters agree pairwise up to case.
SameLetter(a, b) ==
    \/ a = b
    \/ \E k \in 1..Len(UpperCase) : {a, b} = {UpperCase[k], LowerCase[k]}

ContainsIgnoringCase(t, s) ==
    \E i \in 0..(Len(t) - Len(s)) : \A j \in 1..Len(s) : SameLetter(t[i + j], s[j])

\* A type is given: the argument is a string other than the empty one, which
\* the code reads as no type.
TypeGiven(type) == type # Undefined /\ type # ""

\* The indices of the stored clinics a search is to return.
Matching ==
    {k \in 1..Len(search.clinics) :
        /\ \/ ContainsIgnoringCase(search.clinics[k].name, search.query)
           \/ ContainsIgnoringCase(search.clinics[k].address, search.query)
        /\ TypeGiven(search.type) => search.clinics[k].type = search.type}

Answered(slot, route) ==
    handlers[slot].pc = "responded" /\ handlers[slot].route = route

\* Results restricted to a type, when one is given.
RestrictedTo(results, type) ==
    IF type = Absent \/ type[1] = "" THEN results
    ELSE SelectSeq(results, LAMBDA r : r.clinic.type = type[1])

\* C12 as stated: a 200 response of POST /api/clinics/search to a body with a
\* numeric latitude and a numeric longitude holds exactly the stored clinics
\* within radius miles (10 when omitted) of that point, restricted to the
\* type given, with their distances, nearest first.
C12_AsStated ==
    \A slot \in Slots :
        LET h == handlers[slot] IN
        (/\ Answered(slot, "clinics/search")
         /\ h.response.status = 200
         /\ h.body.latitude # Absent
         /\ h.body.longitude # Absent) =>
            h.response.body =
                RestrictedTo(getClinicsByLocation(h.clinics, h.body.latitude[1],
                                                  h.body.longitude[1],
                                                  OrDefault(h.body.radius, Num(10, 0))),
                             h.body.type)

\* meters as miles: 1609.34 meters to the mile.
Miles(meters) == Div(meters, Num(160934, -2))

\* The places a places search hands back: those of an answer of status OK
\* whose results are all well formed; a rejected fetch, another status and a
\* result without geometry are failures of the search.
PlacesFound(outcome) ==
    IF /\ outcome.fetch = "fulfilled"
       /\ outcome.status = "OK"
       /\ \A i \in 1..Len(outcome.results) : outcome.results[i].geometry # Absent
    THEN outcome.results
    ELSE <<>>

\* C13: POST /api/clinics/nearby with a numeric latitude and longitude answers
\* 200 with the local clinics within radius meters (10000 when omitted) of
\* the point, with their distances, followed by every place the places search
\* for the type ("hospital" when omitted) found, at distance 0; when that
\* search fails the answer is 200 with the local results alone.
C13_NearbyMerge ==
    \A slot \in Slots :
        LET h == handlers[slot] IN
        (Answered(slot, "clinics/nearby") /\ ~NearbySchemaThrows(h.body)) =>
            LET localResults ==
                    getClinicsByLocation(h.clinics, h.body.latitude[1], h.body.longitude[1],
                                         Miles(OrDefault(h.body.radius, Num(10000, 0))))
                found == PlacesFound(h.places)
                n == Len(localResults)
            IN  /\ h.response.status = 200
                /\ Len(h.response.body) = n + Len(found)
                /\ SubSeq(h.response.body, 1, n) = localResults
                /\ \A i \in 1..Len(found) :
                      /\ h.response.body[n + i].distance = Zero
                      /\ h.response.body[n + i].clinic.id = found[i].place_id
                      /\ h.response.body[n + i].clinic.name = found[i].name
                      /\ h.response.body[n + i].clinic.type
                            = mapGoogleTypeToClinicType(OrDefault(h.body.type, "hospital"))

\* C13's case: with a radius of 5000 meters the answer holds two local
\* clinics, the second one farther than 0, then the two places found; a
\* stored clinic beyond the radius is left out.
C13_Witness ==
    \E slot \in Slots :
        LET h == handlers[slot] IN
        /\ Answered(slot, "clinics/nearby")
        /\ h.response.status = 200
        /\ h.body.radius = Given(Num(5000, 0))
        /\ Len(h.clinics) = 3
        /\ Len(h.response.body) = 4
        /\ h.response.body[2].distance.m > 0
        /\ h.response.body[3].clinic.id = EmpireState.place_id
        /\ h.response.body[4].clinic.id = Bellevue.place_id

\* The routes that go through the dispatcher and those that go through
\* aiService, and the specialization tag of each of the former.
BrainRoutes == {"nutrition-analyses", "mental-health-assessments", "fitness-plans"}

ServiceRoutes == {"symptoms/analyze", "chat/message", "health/trends"}

TagOf(route) ==
    CASE route = "nutrition-analyses" -> "nutrition"
      [] route = "mental-health-assessments" -> "mental_health"
      [] route = "fitness-plans" -> "fitness"

\* The handler of a slot has answered a request whose payload validated.
AnsweredValid(slot) ==
    handlers[slot].pc = "responded" /\ handlers[slot].response.status # 400

\* The envelope the last process call returned.
LastEnvelope == call.promise.value

\* C14 as stated: each of the five POST routes, once its payload has
\* validated, has called process with a request of its own.
C14_AsStated ==
    \A slot \in Slots :
        (/\ AnsweredValid(slot)
         /\ handlers[slot].route \in BrainRoutes \cup {"symptoms/analyze", "chat/message"}) =>
            /\ handlers[slot].request # Null
            /\ call.request = handlers[slot].request

\* C14, amended: the nutrition, mental-health and fitness routes, once the
\* payload has validated, call process with an analysis request whose
\* specialization is fixed for the route, and answer from the envelope it
\* returned (500 when success is false, 200 only when success is true); the
\* symptoms and chat routes go through aiService and leave the
\* dispatcher's call as it was.
C14_BrainRoutesDispatch ==
    [][\A slot \in Slots :
        /\ (handlers'[slot] # handlers[slot] /\ handlers'[slot].route \in ServiceRoutes) =>
              /\ call' = call
              /\ handlers'[slot].request = Null
        /\ (AnsweredValid(slot) /\ handlers[slot].route \in BrainRoutes)' =>
              (/\ handlers[slot].request.requestType = "analysis"
               /\ handlers[slot].request.specialization = TagOf(handlers[slot].route)
               /\ call.request = handlers[slot].request
               /\ call.pc = "done"
               /\ ~LastEnvelope.success => handlers[slot].response.status = 500
               /\ handlers[slot].response.status = 200 => LastEnvelope.success)'
      ]_vars

\* C14's case: the fitness route answered 200 from the data of a success
\* envelope of a process call for the fitness specialization.
C14_Witness ==
    /\ AnsweredValid(1)
    /\ handlers[1].route = "fitness-plans"
    /\ handlers[1].response.status = 200
    /\ call.request.specialization = "fitness"
    /\ LastEnvelope.success
    /\ handlers[1].response.body.workoutPlan = LastEnvelope.data.personalizedPlan

\* The payload of a route fails validation, from what the schemas require:
\* the required fields are present and the text fields hold strings.
FailsValidation(route, body) ==
    CASE route = "nutrition-analyses" ->
            \/ body.foodItems = Absent
            \/ body.healthGoals # Absent /\ ~IsString(body.healthGoals[1])
      [] route = "mental-health-assessments" ->
            \/ body.assessmentType \notin {Given(Str("anxiety"))}
            \/ body.responses = Absent
      [] route = "fitness-plans" ->
            \/ body.goals = Absent
            \/ body.userProfile # Absent /\ body.userProfile[1].experience = Given(Num(3, 0))

\* The text a route answers when the envelope carries no error message.
DefaultError(route) ==
    CASE route = "nutrition-analyses" -> "Nutrition analysis failed"
      [] route = "mental-health-assessments" -> "Mental health assessment failed"
      [] route = "fitness-plans" -> "Fitness plan creation failed"

\* What C15 says of a handler that has answered; the 500 for an envelope of
\* success false carries the envelope's error, or with `defaulting` the
\* route's own text when that error is empty.
ValidationPrecedesDispatch(slot, defaulting) ==
    LET h == handlers[slot] IN
    (h.pc = "responded" /\ h.route \in BrainRoutes) =>
        /\ FailsValidation(h.route, h.body) =>
              /\ h.response.status = 400
              /\ h.response.error # Undefined
              /\ h.response.body = <<"details">>
              /\ h.request = Null
        /\ ~FailsValidation(h.route, h.body) =>
              /\ call.request = h.request
              /\ call.pc = "done"
              /\ ~LastEnvelope.success =>
                    /\ h.response.status = 500
                    /\ h.response.error =
                          IF defaulting /\ LastEnvelope.error = ""
                          THEN DefaultError(h.route) ELSE LastEnvelope.error
              /\ h.response.status = 200 => LastEnvelope.success

ServiceError(route) ==
    CASE route = "symptoms/analyze" -> "Failed to analyze symptoms. Please try again later."
      [] route = "chat/message" -> "Failed to get AI response. Please try again later."
      [] route = "health/trends" -> "Failed to analyze health trends. Please try again later."

HandlerError(route) ==
    CASE route = "symptoms/analyze" -> "Failed to analyze symptoms"
      [] route = "chat/message" -> "Failed to process chat message"
      [] route = "health/trends" -> "Failed to analyze health trends"

\* C19 as stated: no exception reaches the handler of a service route.
C19_AsStated ==
    \A slot \in Slots :
        (handlers[slot].pc = "responded" /\ handlers[slot].route \in ServiceRoutes) =>
            handlers[slot].caught = Null

\* C19, amended: a failure of the completion is caught inside the AIService
\* method and thrown again as a new Error of a fixed message; that exception
\* reaches the handler, whose catch block answers 500 with a fixed text; a
\* handler of these routes answers 500 in no other case.
C19_ServiceRethrows ==
    \A slot \in Slots :
        LET h == handlers[slot] IN
        (h.pc = "responded" /\ h.route \in ServiceRoutes) =>
            /\ h.caught # Null =>
                  /\ h.caught = Error(ServiceError(h.route))
                  /\ h.response = Failure(500, HandlerError(h.route))
            /\ h.response.status = 500 => h.caught # Null

\* C19's case: the completion failed during POST /api/chat/message for a
\* stored session, the handler caught the service's Error and answered 500,
\* and the session was left as it was.
C19_Witness ==
    /\ handlers[1].pc = "responded"
    /\ handlers[1].route = "chat/message"
    /\ handlers[1].caught = Error("Failed to get AI response. Please try again later.")
    /\ handlers[1].response.status = 500
    /\ SessionMessages(chatSessions, handlers[1].body.sessionId[1]) = <<>>

\* The request of the call with its fallback set to f, and what process does
\* for a request on the provider selected for the call and the way the
\* provider's method settled: the invocations it makes and the promise it
\* returns.
WithFallback(f) == [call.request EXCEPT !.fallback = f]

ProcessOutcome(request) ==
    LET d == Dispatch(request) IN
    IF NoProvider(call.provider)
    THEN [invoked |-> <<>>, promise |-> ProcessCatch(NoProviderError)]
    ELSE IF d.throws
    THEN [invoked |-> <<>>, promise |-> ProcessCatch(d.error)]
    ELSE [invoked |-> <<[provider |-> call.provider, method |-> d.method, args |-> d.args]>>,
          promise |-> CASE call.settled.state = "fulfilled" ->
                              ProcessReturn(call.provider, call.settled.value)
                        [] call.settled.state = "rejected" ->
                              ProcessCatch(call.settled.reason)
                        [] OTHER -> Pending]

\* C16: the fallback flag has no effect. On the same registry a request
\* selects the provider the request with the other fallback value selects,
\* and once process has returned, its invocations (one at most) and its
\* envelope are those process makes, on the same provider behaviour, for
\* the request with either value of fallback.
C16_FallbackHasNoEffect ==
    [][/\ ProcessStarts =>
              \A f \in Fallbacks :
                  Selected([call'.request EXCEPT !.fallback = f], providers).provider
                      = call'.provider
       /\ Done' =>
              (/\ Len(call.invoked) <= 1
               /\ \A f \in Fallbacks :
                     ProcessOutcome(WithFallback(f))
                         = [invoked |-> call.invoked, promise |-> call.promise])'
      ]_vars

\* C16's case: process returned for a request of an unsupported type whose
\* fallback is true, on a registry with an active provider, as it does for
\* the same request without fallback: a failure envelope and no invocation.
C16_Witness ==
    /\ Done
    /\ call.request.fallback = "true"
    /\ call.request.requestType = "nutrition"
    /\ ~NoProvider(call.provider)
    /\ call.invoked = <<>>
    /\ ~Envelope.success

\* Registration is not over: initialize has not called registerProviders
\* yet, or one of the imports is still pending.
Registering ==
    initPc = "awaiting" \/ \E m \in Modules : imports[m] \in {"none", "pending"}

\* The registered providers that are active and outrank provider p.
Outranking(p) ==
    {i \in 1..Len(providers) :
        providers[i].provider.isActive /\ providers[i].provider.priority > p.priority}

\* C17: selection never blocks on registration. Until initialize resumes
\* after the constructor no import has started; process can be called
\* and can resume whatever registration has done so far, and neither step
\* moves registration; a call that selected on an empty registry selected
\* no provider and returns, as its next step, a success=false envelope
\* without an invocation, whatever has been registered in between; a call
\* that selects on a partly filled registry selects among the providers
\* registered at that moment only.
C17_SelectionNeverBlocks ==
    [][/\ initPc = "awaiting" => \A m \in Modules : imports[m] = "none"
       /\ call.pc \in {"idle", "done"} => ENABLED Process(SymptomsRequest)
       /\ call.pc = "selected" => ENABLED ProcessResume
       /\ call' # call => <<providers, initPc, imports>>' = <<providers, initPc, imports>>
       /\ ProcessStarts =>
              /\ providers = <<>> => call'.provider = Null
              /\ call'.provider # Null =>
                    /\ \E i \in 1..Len(providers) : providers[i].provider = call'.provider
                    /\ Outranking(call'.provider) = {}
       /\ (call.pc = "selected" /\ call.provider = Null /\ call' # call) =>
              /\ call'.pc = "done"
              /\ call'.invoked = <<>>
              /\ call'.promise.state = "fulfilled"
              /\ ~call'.promise.value.success
      ]_vars

\* C17's case: while an import was still pending, process selected the
\* top provider of those registered; the import has since registered an
\* active provider of higher priority, and the call goes on with the
\* provider it selected.
C17_Witness ==
    /\ call.pc = "awaiting"
    /\ call.provider # Null
    /\ Outranking(call.provider) # {}
    /\ \E i \in Outranking(call.provider) : providers[i].key \in Modules
    /\ call.invoked[1].provider = call.provider

\* The handler of a slot writes its conversation to a stored session in this
\* step.
WritesSession(slot) ==
    /\ handlers[slot].pc = "openai"
    /\ handlers[slot].route = "chat/message"
    /\ handlers'[slot].pc = "responded"
    /\ handlers'[slot].response.status = 200
    /\ handlers[slot].seen # <<Null>>

\* The handling of the slot's request overlapped that of another request for
\* the same session: both arrived on the same stored messages, and the other
\* has written the session and answered.
Overlapped(slot) ==
    \E other \in Slots \ {slot} :
        /\ handlers[other].pc = "responded"
        /\ handlers[other].route = "chat/message"
        /\ handlers[other].response.status = 200
        /\ handlers[other].body.sessionId = handlers[slot].body.sessionId
        /\ handlers[other].seen = handlers[slot].seen
        /\ SessionMessages(chatSessions, handlers[slot].body.sessionId[1])
              # handlers[slot].seen

\* C18 as stated: of two POST /api/chat/message requests for one session
\* whose handling overlaps across the awaited call, the second to write
\* overwrites nothing the first stored: each message stored for the session
\* is still stored after the write.
C18_AsStated ==
    [][\A slot \in Slots :
          (WritesSession(slot) /\ Overlapped(slot)) =>
              LET id == handlers[slot].body.sessionId[1]
                  before == SessionMessages(chatSessions, id)
                  after == SessionMessages(chatSessions', id)
              IN  \A k \in 1..Len(before) : \E j \in 1..Len(after) : after[j] = before[k]
      ]_vars

\* The latitude or the longitude text of a clinic does not parse to a number.
Malformed(clinic) ==
    parseFloat(clinic.latitude) = NaN \/ parseFloat(clinic.longitude) = NaN

\* C20: a stored clinic whose latitude or longitude text does not parse to a
\* number is in no result of getClinicsByLocation, whatever the query point
\* and the radius, and the call returns what it returns on the store without
\* the malformed clinics: the same clinics with the same distances in the
\* same order.
C20_MalformedExcluded ==
    Queried =>
        /\ \A i \in 1..Len(query.result) : ~Malformed(query.result[i].clinic)
        /\ query.result =
              getClinicsByLocation(SelectSeq(query.clinics, LAMBDA c : ~Malformed(c)),
                                   query.latitude, query.longitude, query.radius)

\* C20's case: the store held a clinic with a malformed coordinate text, and
\* a call returned the clinics around it without it.
C20_Witness ==
    /\ Queried
    /\ \E k \in 1..Len(query.clinics) : Malformed(query.clinics[k])
    /\ Len(query.result) >= 2
    /\ Len(query.result) < Len(query.clinics)

\* The store of the example: the two clinics at (40.7128, -74.0060) and
\* (40.7589, -73.9851), which are the first two sample clinics.
TwoClinics == SubSeq(SampleClinics, 1, 2)

\* The results of a list that are clinics of the example.
OfTwoClinics(results) ==
    SelectSeq(results, LAMBDA r : \E k \in 1..2 : r.clinic = TwoClinics[k])

\* C21: on the store of the two clinics, a query at the first clinic's point
\* with radius 5 returns both, the first clinic first at distance 0 and the
\* second at a distance above 1 and at most 5, and with radius 1 returns the
\* first clinic only; a call on a store that holds those two clinics among
\* others returns them in the same way.
C21_TwoClinicsExample ==
    (/\ Queried
     /\ <<query.latitude, query.longitude>> = PlaceOf(TwoClinics[1])
     /\ query.radius \in {One, Num(5, 0)}) =>
        LET example == getClinicsByLocation(TwoClinics, query.latitude, query.longitude,
                                            query.radius)
        IN  /\ example[1] = [clinic |-> TwoClinics[1], distance |-> Zero]
            /\ query.radius = One => Len(example) = 1
            /\ query.radius = Num(5, 0) =>
                  /\ Len(example) = 2
                  /\ example[2].clinic = TwoClinics[2]
                  /\ Exceeds(example[2].distance, One)
                  /\ Leq(example[2].distance, Num(5, 0))
            /\ OfTwoClinics(query.result) = example

\* C21's case: a call at the first clinic's point with radius 5 returned the
\* first clinic first at distance 0 and, after it, the second clinic about
\* 3.4 miles away.
C21_Witness ==
    /\ Queried
    /\ <<query.latitude, query.longitude>> = PlaceOf(TwoClinics[1])
    /\ query.radius = Num(5, 0)
    /\ query.result[1] = [clinic |-> TwoClinics[1], distance |-> Zero]
    /\ \E i \in 2..Len(query.result) :
          /\ query.result[i].clinic = TwoClinics[2]
          /\ Exceeds(query.result[i].distance, Num(33, -1))
          /\ Leq(query.result[i].distance, Num(34, -1))

\* The ids of the clinics a store holds.
ClinicIds(cl) == {cl[k].id : k \in 1..Len(cl)}

\* C22: the seeded clinics are in the store as seeded, and every step, of
\* the store or of a handler, leaves each stored clinic in its place with
\* all its fields; the ids only grow, and a clinic that enters the store
\* has an id no stored clinic had.
C22_ClinicsImmutable ==
    [][/\ SubSeq(clinics, 1, Len(SampleClinics)) = SampleClinics
       /\ Len(clinics') >= Len(clinics)
       /\ SubSeq(clinics', 1, Len(clinics)) = clinics
       /\ ClinicIds(clinics) \subseteq ClinicIds(clinics')
       /\ \A k \in (Len(clinics) + 1)..Len(clinics') :
              clinics'[k].id \notin ClinicIds(clinics)
       /\ Cardinality(ClinicIds(clinics')) = Len(clinics')
      ]_vars

\* C22's case: createClinic has stored a fourth clinic, and a request has
\* since been answered 200 with results from the store of four.
C22_Witness ==
    /\ Len(clinics) = Len(SampleClinics) + 1
    /\ handlers[1].pc = "responded"
    /\ handlers[1].response.status = 200
    /\ handlers[1].clinics = clinics
    /\ Len(handlers[1].response.body) >= 1

\* C23: as the server runs the dispatcher (registerProvider called by the
\* three import callbacks only), a registered provider keeps its place in
\* the registry with its name, isActive and priority; once every import is
\* over no step changes the registry, and every process call that starts
\* then selects the one provider selectProvider gives on it.
C23_RegistryImmutable ==
    [][/\ Len(providers') >= Len(providers)
       /\ SubSeq(providers', 1, Len(providers)) = providers
       /\ ~Registering =>
              /\ providers' = providers
              /\ selectProvider(providers') = selectProvider(providers)
              /\ ProcessStarts => call'.provider = selectProvider(providers)
      ]_vars

\* C23's case: registration is over with two providers registered, and a
\* process call has returned through the provider selectProvider gives.
C23_Witness ==
    /\ ~Registering
    /\ Len(providers) = 2
    /\ call.pc = "done"
    /\ call.provider = selectProvider(providers)
    /\ call.provider # Null
    /\ Envelope.success

\* C24 as stated: whatever registerProvider calls were made, no two entries
\* of the registry hold providers of the same name.
C24_AsStated ==
    \A i, j \in 1..Len(providers) :
        providers[i].provider.name = providers[j].provider.name => i = j

\* The entry registerProviders makes for module m is in the registry.
Registered(m) ==
    \E i \in 1..Len(providers) : providers[i] = [key |-> m, provider |-> ModuleProvider(m)]

\* C25: a provider whose import (or construction) failed is absent from the
\* registry and one whose import succeeded is registered; the step in which
\* an import fails changes nothing but that import's state (not the
\* registry, not the other imports, not a process call under way); a process
\* call that starts while some import has succeeded selects a provider, of
\* the highest priority among those loaded; and process never rejects.
C25_RegistrationFailsSilently ==
    [][/\ \A m \in Modules :
              /\ imports[m] = "failed" => \A i \in 1..Len(providers) : providers[i].key # m
              /\ imports[m] = "loaded" => Registered(m)
              /\ (imports[m] = "pending" /\ imports'[m] = "failed") =>
                    /\ <<providers, initPc, call>>' = <<providers, initPc, call>>
                    /\ \A n \in Modules \ {m} : imports'[n] = imports[n]
       /\ (ProcessStarts /\ \E m \in Modules : imports[m] = "loaded") =>
              /\ call'.provider # Null
              /\ \E m \in Modules : imports[m] = "loaded" /\ call'.provider = ModuleProvider(m)
              /\ \A m \in Modules :
                    imports[m] = "loaded" => ModuleProvider(m).priority <= call'.provider.priority
       /\ (call'.pc = "done" /\ call.pc # "done") => call'.promise.state = "fulfilled"
      ]_vars

\* C25's case: the import of openai failed and that of gemini succeeded, and
\* a process call has returned success through gemini.
C25_Witness ==
    /\ imports["openai"] = "failed"
    /\ imports["gemini"] = "loaded"
    /\ Registered("gemini")
    /\ call.pc = "done"
    /\ call.provider = GeminiProvider
    /\ Envelope.success
    /\ Envelope.provider = "gemini"

\* The registry holds the three classes, and nothing else: openai active at
\* priority 10, gemini at 9 and perplexity at 8.
ThreeRegistered ==
    /\ Len(providers) = 3
    /\ \E i \in 1..3 : providers[i] =
          [key |-> "openai", provider |-> [name |-> "openai", isActive |-> TRUE, priority |-> 10]]
    /\ \E i \in 1..3 : providers[i] =
          [key |-> "gemini", provider |-> [name |-> "gemini", isActive |-> TRUE, priority |-> 9]]
    /\ \E i \in 1..3 : providers[i] =
          [key |-> "perplexity", provider |-> [name |-> "perplexity", isActive |-> TRUE, priority |-> 8]]

AnotherSupports(p, type) ==
    \E i \in 1..Len(providers) :
        /\ providers[i].provider # p
        /\ providers[i].provider.isActive
        /\ type \in AnalyzeCases(providers[i].provider.name)

AICallReturns(slot) ==
    /\ handlers[slot].pc = "openai"
    /\ handlers[slot].route \in {"symptoms/analyze", "chat/message"}
    /\ handlers'[slot].pc = "responded"

\* C28: when the AI call of POST /api/symptoms/analyze or of POST
\* /api/chat/message fails, the step that answers the request answers 500
\* and leaves the stored analyses and the chat sessions (messages and
\* updatedAt) as they were; the stored analyses and the stored sessions
\* change, other than by createChatSession, only in a step in which such a
\* call has returned and the request is answered 200.
C28_FailedCallLeavesStore ==
    [][/\ \A slot \in Slots :
              (AICallReturns(slot) /\ handlers'[slot].caught # Null) =>
                  /\ handlers'[slot].response.status = 500
                  /\ symptomAnalyses' = symptomAnalyses
                  /\ chatSessions' = chatSessions
       /\ symptomAnalyses' # symptomAnalyses =>
              \E slot \in Slots :
                  /\ AICallReturns(slot)
                  /\ handlers[slot].route = "symptoms/analyze"
                  /\ handlers'[slot].caught = Null
                  /\ handlers'[slot].response.status = 200
       /\ SubSeq(chatSessions', 1, Len(chatSessions)) # chatSessions =>
              \E slot \in Slots :
                  /\ AICallReturns(slot)
                  /\ handlers[slot].route = "chat/message"
                  /\ handlers'[slot].caught = Null
                  /\ handlers'[slot].response.status = 200
      ]_vars

\* C28's case: the AI call of a chat message for the stored session has
\* failed and the request is answered 500, with the session as it was
\* created.
C28_Witness ==
    /\ handlers[1].pc = "responded"
    /\ handlers[1].route = "chat/message"
    /\ handlers[1].caught # Null
    /\ handlers[1].response.status = 500
    /\ handlers[1].body.sessionId = Given(1)
    /\ Len(chatSessions) = 1
    /\ chatSessions[1] = [id |-> 1, messages |-> <<>>, updatedAt |-> 0]
    /\ symptomAnalyses = <<>>

\* The store holds a chat session of that id.
HasSession(sessions, id) == \E i \in 1..Len(sessions) : sessions[i].id = id

\* C29: in the step that answers a chat message 200, the response carries
\* the assistant message and the request's sessionId; if the session is in
\* the store its messages become the request's messages array, then the
\* user message, then that assistant message, whatever was stored, and
\* no other session changes; if it is not, the store is left as it was.
C29_ChatWritesConversation ==
    [][\A slot \in Slots :
          (/\ handlers[slot].pc = "openai" /\ handlers[slot].route = "chat/message"
           /\ handlers'[slot].pc = "responded" /\ handlers'[slot].response.status = 200) =>
              LET body == handlers[slot].body
                  id == body.sessionId[1]
                  reply == handlers'[slot].response.body.message
              IN  /\ reply.role = "assistant"
                  /\ handlers'[slot].response.body.sessionId = id
                  /\ Len(chatSessions') = Len(chatSessions)
                  /\ \A i \in 1..Len(chatSessions) :
                        chatSessions[i].id # id => chatSessions'[i] = chatSessions[i]
                  /\ HasSession(chatSessions, id) =>
                        SessionMessages(chatSessions', id) =
                            body.messages \o <<[role |-> "user", content |-> body.message]>>
                                \o <<reply>>
                  /\ ~HasSession(chatSessions, id) => chatSessions' = chatSessions
      ]_vars

\* C29's case: a chat message for session 1, which held an earlier
\* conversation when the request arrived, is answered 200 and the session
\* holds the request's array, the user message and the reply instead; and
\* a chat message for session 2, which does not exist, is answered 200 too.
C29_Witness ==
    /\ handlers[1].pc = "responded" /\ handlers[1].route = "chat/message"
    /\ handlers[1].response.status = 200
    /\ handlers[1].body.sessionId = Given(1)
    /\ handlers[1].body.messages # <<>>
    /\ Len(handlers[1].seen) = 2
    /\ handlers[1].seen[1].content # handlers[1].body.message
    /\ Len(chatSessions) = 1
    /\ chatSessions[1].messages =
          handlers[1].body.messages \o <<ChatMessage("user", handlers[1].body.message)>>
              \o <<handlers[1].response.body.message>>
    /\ handlers[2].pc = "responded" /\ handlers[2].route = "chat/message"
    /\ handlers[2].response.status = 200
    /\ handlers[2].body.sessionId = Given(2)
    /\ handlers[2].response.body.message.role = "assistant"

\* A valid search request arrives at the slot in this step.
SearchArrives(slot) ==
    /\ handlers[slot].pc \in {"idle", "responded"}
    /\ handlers'[slot] # handlers[slot]
    /\ handlers'[slot].route = "clinics/search"
    /\ ~SearchSchemaThrows(handlers'[slot].body)

\* C30 as stated: a valid search runs the geocoding branch when location
\* is supplied without both coordinates, else the coordinates branch when
\* both coordinates are supplied, else the text search when query is
\* supplied, else the listing of all clinics, the last two at distance 0;
\* a 200 response to a request that supplies type holds clinics of that
\* type only; when geocoding fails the response is 200 with an empty list.
C30_AsStated ==
    [][\A slot \in Slots :
          /\ SearchArrives(slot) =>
                LET h == handlers'[slot]
                    b == h.body
                    both == b.latitude # Absent /\ b.longitude # Absent
                    typed(results) ==
                        IF b.type = Absent THEN results
                        ELSE SelectSeq(results, LAMBDA r : r.clinic.type = b.type[1])
                IN  CASE b.location # Absent /\ ~both -> h.pc = "geocoding"
                      [] both -> h.pc = "store"
                      [] b.query # Absent ->
                            /\ h.pc = "responded"
                            /\ h.response =
                                  Json(typed(AtDistanceZero(
                                      searchClinics(clinics, b.query[1], Undefined))))
                      [] OTHER ->
                            /\ h.pc = "responded"
                            /\ h.response = Json(typed(AtDistanceZero(clinics)))
          /\ (/\ handlers'[slot].pc = "responded" /\ handlers'[slot] # handlers[slot]
              /\ handlers'[slot].route = "clinics/search"
              /\ handlers'[slot].response.status = 200
              /\ handlers'[slot].body.type # Absent) =>
                \A k \in 1..Len(handlers'[slot].response.body) :
                    handlers'[slot].response.body[k].clinic.type = handlers'[slot].body.type[1]
          /\ (/\ handlers[slot].pc = "geocoding" /\ handlers'[slot].pc = "responded") =>
                handlers'[slot].response = Json(<<>>)
      ]_vars

====
